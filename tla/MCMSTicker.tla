----------------------------- MODULE MCMSTicker -----------------------------
(* A source and a receiver with its decoder meet in a filter that may have *)
(* a loop behind it; the source may also feed the output, with it or       *)
(* apart from it.                                                          *)
EXTENDS MSTicker

CONSTANTS source, receiver, decoder1, decoder2, join, back, output

MCFilters == {source, receiver, decoder1, decoder2, join, back, output}

MCOutputPins ==
  [f \in MCFilters |->
     CASE f = source   -> <<join, output>>
       [] f = receiver -> <<decoder1, decoder2>>
       [] f \in {decoder1, decoder2, back} -> <<join>>
       [] f = join     -> <<back, output>>
       [] f = output   -> <<>>]

Preview == {<<source, output>>}
Receive == {<<receiver, decoder1>>, <<decoder1, join>>}
Loop    == {<<join, back>>, <<back, join>>}
Mix     == {<<source, join>>, <<join, output>>}

MCGraphs == {Preview, Receive \cup Loop, Receive \cup Mix, Receive \cup Mix \cup Loop}
=============================================================================
