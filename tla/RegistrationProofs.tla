------------------------- MODULE RegistrationProofs -------------------------
(* Theorems about Registration.tla.  RegistrationInv is inductive; what is *)
(* said of the network relies on it, what is said of the states shown also *)
(* on what the waiting events tell of the last requests.                   *)
EXTENDS Registration, TLAPS

-----------------------------------------------------------------------------
(* Taking the first of the events, adding one.                             *)
LEMMA TakeFirst ==
  ASSUME NEW S, NEW s \in Seq(S), s # <<>>
  PROVE  /\ Len(s) \in Nat \ {0} /\ Head(s) = s[1] /\ Head(s) \in S
         /\ Tail(s) \in Seq(S) /\ Len(Tail(s)) = Len(s) - 1
         /\ \A i \in 1 .. Len(Tail(s)) : i + 1 \in 1 .. Len(s) /\ Tail(s)[i] = s[i + 1]
  OBVIOUS

LEMMA AddLast ==
  ASSUME NEW S, NEW s \in Seq(S), NEW x \in S
  PROVE  /\ Append(s, x) \in Seq(S) /\ Len(s) \in Nat
         /\ Len(Append(s, x)) = Len(s) + 1
         /\ \A i \in 1 .. Len(s) : Append(s, x)[i] = s[i]
         /\ Append(s, x)[Len(s) + 1] = x
  OBVIOUS

(* Ops are pairs; the constants have their kinds.                          *)
LEMMA OpPairs ==
  /\ \A o \in Ops : o[1] \in Configs /\ o[2] \in 1 .. MaxOps /\ o = <<o[1], o[2]>>
  /\ \A c \in Configs, n \in 1 .. MaxOps : <<c, n>> \in Ops
  /\ \A c, n : <<c, n>>[1] = c /\ <<c, n>>[2] = n
  BY DEF Ops

LEMMA Kinds ==
  /\ MaxRetry \in Nat /\ MaxOps \in Nat
  /\ \A c \in Configs : AccountOf[c] \in Accounts
  /\ \A o \in Ops : Account(o) \in Accounts
  BY RegistrationAssumption, OpPairs DEF Account

LEMMA RequestKinds ==
  /\ Initial \in Requests
  /\ \A a \in {"ok", "refused", "bare"} : Over(a) \in Requests
  /\ \A s \in BOOLEAN : /\ [kind |-> "register", signed |-> s, answer |-> "none"] \in Requests
                        /\ [kind |-> "unregister", signed |-> s, answer |-> "none"] \in Requests
  BY DEF Requests, Initial, Over

(* A config's op, when it has one.                                         *)
LEMMA CurrentOp ==
  ASSUME TypeOK, NEW c \in Configs
  PROVE  /\ Current(c)[1] = c /\ Current(c)[2] = op[c] /\ op[c] \in 0 .. MaxOps
         /\ op[c] > 0 => Current(c) \in Ops
         /\ op[c] = 0 => Current(c) \notin Ops
<1>1. op[c] \in 0 .. MaxOps /\ MaxOps \in Nat
  BY Kinds DEF TypeOK
<1>2. op[c] > 0 => op[c] \in 1 .. MaxOps
  BY <1>1
<1>3. QED BY <1>1, <1>2, OpPairs DEF Current

-----------------------------------------------------------------------------
(* What the parts of the actions do.                                       *)
LEMMA TransmitTypes ==
  ASSUME TypeOK, NEW o \in Ops, NEW k \in {"register", "unregister"}, NEW s \in BOOLEAN,
         Transmit(o, k, s)
  PROVE  /\ r_last_tr' \in [Ops -> Requests]
         /\ r_last_tr'[o].answer = "none"
         /\ \A p \in Ops \ {o} : r_last_tr'[p] = r_last_tr[p]
<1>1. [kind |-> k, signed |-> s, answer |-> "none"] \in Requests
  BY RequestKinds
<1>2. r_last_tr \in [Ops -> Requests]
  BY DEF TypeOK
<1>3. CASE InFlight(o)
  BY <1>2, <1>3 DEF Transmit, InFlight
<1>4. CASE ~InFlight(o)
  <2>1. r_last_tr' = [r_last_tr EXCEPT ![o] = [kind |-> k, signed |-> s, answer |-> "none"]]
    BY <1>4 DEF Transmit
  <2>2. [kind |-> k, signed |-> s, answer |-> "none"].answer = "none"
    OBVIOUS
  <2>3. QED BY <1>1, <1>2, <2>1, <2>2
<1>5. QED BY <1>3, <1>4

LEMMA UnregisterTypes ==
  ASSUME RegistrationInv, NEW c \in Configs, Unregister(c)
  PROVE  /\ registered' \subseteq registered
         /\ r_reg_period' \subseteq r_reg_period
         /\ \A o \in r_reg_period : o # Current(c) => o \in r_reg_period'
         /\ r_last_tr' \in [Ops -> Requests]
         /\ \A p \in Ops : r_last_tr'[p] = r_last_tr[p] \/ r_last_tr'[p].answer = "none"
<1> DEFINE o == Current(c)
<1>1. TypeOK
  BY DEF RegistrationInv
<1>2. CASE c \in enabled \cap registered /\ o \in j_reg
  <2>1. o \in Ops /\ Transmit(o, "unregister", FALSE) /\ registered' = registered \ {c}
        /\ r_reg_period' = r_reg_period \ {o}
    BY <1>1, <1>2 DEF Unregister, TypeOK
  <2>2. /\ r_last_tr' \in [Ops -> Requests] /\ r_last_tr'[o].answer = "none"
        /\ \A p \in Ops \ {o} : r_last_tr'[p] = r_last_tr[p]
    BY <1>1, <2>1, TransmitTypes
  <2>3. QED BY <2>1, <2>2
<1>3. CASE ~(c \in enabled \cap registered /\ o \in j_reg)
  <2>1. /\ registered' \subseteq registered /\ UNCHANGED <<r_reg_period, r_last_tr>>
    BY <1>3 DEF Unregister
  <2>2. QED BY <1>1, <2>1 DEF TypeOK
<1>4. QED BY <1>2, <1>3

LEMMA ForgetTypes ==
  ASSUME RegistrationInv, NEW o, Forget(o)
  PROVE  /\ pending_auth' = pending_auth \ {o}
         /\ pending_auths' \in [Ops -> Nat]
         /\ \A p \in Ops : p # o => pending_auths'[p] = pending_auths[p]
<1>1. TypeOK /\ ChallengesAreListed
  BY DEF RegistrationInv
<1>2. CASE o \in pending_auth
  <2>1. o \in Ops /\ pending_auths[o] \in Nat /\ pending_auths[o] > 0
    BY <1>1, <1>2 DEF TypeOK, ChallengesAreListed
  <2>2. pending_auths[o] - 1 \in Nat
    BY <2>1
  <2>3. pending_auths' = [pending_auths EXCEPT ![o] = pending_auths[o] - 1]
    BY <1>2 DEF Forget
  <2>4. QED BY <1>1, <2>1, <2>2, <2>3 DEF TypeOK, Forget
<1>3. CASE o \notin pending_auth
  BY <1>1, <1>3 DEF Forget, TypeOK
<1>4. QED BY <1>2, <1>3

LEMMA SignTypes ==
  ASSUME RegistrationInv, NEW o \in Ops, Sign(o)
  PROVE  /\ r_retry' \in [Ops -> 0 .. MaxRetry] /\ r_last_tr' \in [Ops -> Requests]
         /\ \A p \in Ops \ {o} : r_retry'[p] = r_retry[p] /\ r_last_tr'[p] = r_last_tr[p]
         /\ o \in j_reg => r_last_tr'[o].answer = "none" \/ r_retry'[o] = MaxRetry
         /\ r_last_tr'[o] = r_last_tr[o] \/ r_last_tr'[o].answer = "none"
<1>1. TypeOK
  BY DEF RegistrationInv
<1>2. CASE o \in j_reg /\ r_retry[o] < MaxRetry
  <2>1. r_retry[o] + 1 \in 0 .. MaxRetry
    BY <1>1, <1>2, Kinds DEF TypeOK
  <2>2. r_retry' = [r_retry EXCEPT ![o] = r_retry[o] + 1]
    BY <1>2 DEF Sign
  <2>3. PICK k \in {"register", "unregister"}, s \in BOOLEAN : Transmit(o, k, s)
    BY <1>2 DEF Sign
  <2>4. /\ r_last_tr' \in [Ops -> Requests] /\ r_last_tr'[o].answer = "none"
        /\ \A p \in Ops \ {o} : r_last_tr'[p] = r_last_tr[p]
    BY <1>1, <2>3, TransmitTypes
  <2>5. QED BY <1>1, <2>1, <2>2, <2>4 DEF TypeOK
<1>3. CASE ~(o \in j_reg /\ r_retry[o] < MaxRetry)
  <2>1. UNCHANGED <<r_retry, r_last_tr>>
    BY <1>3 DEF Sign
  <2>2. o \in j_reg => r_retry[o] = MaxRetry
    BY <1>1, <1>3, Kinds DEF TypeOK
  <2>3. QED BY <1>1, <2>1, <2>2 DEF TypeOK
<1>4. QED BY <1>2, <1>3

LEMMA UsedTypes ==
  ASSUME NEW uses \in [Accounts -> 0 .. MaxRetry], NEW a \in Accounts
  PROVE  Used(uses, a) \in [Accounts -> 0 .. MaxRetry]
<1>1. uses[a] \in 0 .. MaxRetry /\ MaxRetry \in Nat
  BY Kinds
<1>2. CASE uses[a] < MaxRetry
  <2>1. uses[a] + 1 \in 0 .. MaxRetry
    BY <1>1, <1>2
  <2>2. Used(uses, a) = [uses EXCEPT ![a] = uses[a] + 1]
    BY <1>2 DEF Used
  <2>3. QED BY <2>1, <2>2
<1>3. CASE ~(uses[a] < MaxRetry)
  BY <1>3 DEF Used
<1>4. QED BY <1>2, <1>3

LEMMA SendAgainTypes ==
  ASSUME RegistrationInv, NEW e \in Events, SendAgain(e)
  PROVE  /\ r_reg_period \subseteq r_reg_period' /\ r_reg_period' \subseteq j_reg
         /\ r_last_tr' \in [Ops -> Requests]
         /\ \A p \in Ops \ {e.op} : r_last_tr'[p] = r_last_tr[p]
         /\ r_last_tr'[e.op] = r_last_tr[e.op] \/ r_last_tr'[e.op].answer = "none"
         /\ SentAgain(e) => r_last_tr'[e.op].answer = "none"
<1>1. TypeOK /\ e.op \in Ops
  BY DEF RegistrationInv, Events
<1>2. CASE e.moved /\ e.op \in j_reg
  <2>1. r_reg_period' = r_reg_period \cup {e.op} /\ Transmit(e.op, "register", FALSE)
    BY <1>2 DEF SendAgain
  <2>2. /\ r_last_tr' \in [Ops -> Requests] /\ r_last_tr'[e.op].answer = "none"
        /\ \A p \in Ops \ {e.op} : r_last_tr'[p] = r_last_tr[p]
    BY <1>1, <2>1, TransmitTypes
  <2>3. QED BY <1>1, <1>2, <2>1, <2>2 DEF TypeOK
<1>3. CASE ~(e.moved /\ e.op \in j_reg)
  <2>1. UNCHANGED <<r_reg_period, r_last_tr>> /\ ~SentAgain(e)
    BY <1>3 DEF SendAgain, SentAgain
  <2>2. QED BY <1>1, <2>1 DEF TypeOK
<1>4. QED BY <1>2, <1>3

(* What an event does to requests: it may begin one of its own op.         *)
LEMMA RequestEffects ==
  ASSUME RegistrationInv, NEW e \in Events,
         \/ RegistrationSuccess(e) \/ RegistrationFailure(e) \/ Challenged(e)
         \/ UNCHANGED r_last_tr
  PROVE  \A p \in Ops : \/ r_last_tr'[p] = r_last_tr[p]
                        \/ p = e.op /\ r_last_tr'[p].answer = "none"
<1>1. e.op \in Ops
  BY DEF Events
<1>2. CASE SendAgain(e)
  BY <1>2, SendAgainTypes
<1>3. CASE Sign(e.op)
  BY <1>1, <1>3, SignTypes
<1>4. CASE UNCHANGED r_last_tr
  BY <1>4
<1>5. QED BY <1>2, <1>3, <1>4 DEF RegistrationSuccess, RegistrationFailure, Challenged

-----------------------------------------------------------------------------
(* Every variable keeps to its values.                                     *)
LEMMA HandleEventTypes ==
  ASSUME RegistrationInv, HandleEvent
  PROVE  TypeOK'
<1> DEFINE e == Head(events)
<1> USE DEF RegistrationInv
<1>1. events # <<>> /\ e \in Events /\ events' = Tail(events) /\ Tail(events) \in Seq(Events)
  BY TakeFirst DEF HandleEvent, TypeOK
<1>2. /\ e.op \in Ops /\ e.op[1] \in Configs
      /\ AccountOf[e.op[1]] \in Accounts /\ Account(e.op) = AccountOf[e.op[1]]
  BY <1>1, OpPairs, Kinds DEF Events, Account
<1>3. UNCHANGED <<config, changes, registers, j_reg, undefined>>
  BY DEF HandleEvent
<1>4. CASE RegistrationSuccess(e)
  <2>1. r_reg_period' \subseteq j_reg /\ r_last_tr' \in [Ops -> Requests]
    BY <1>1, <1>4, SendAgainTypes DEF RegistrationSuccess
  <2>2. works' \subseteq auth_info
    BY <1>4 DEF RegistrationSuccess, TypeOK
  <2>3. registered' \subseteq Configs
    BY <1>2, <1>4 DEF RegistrationSuccess, TypeOK, report
  <2>4. state' \in [Configs -> {"None", "Progress", "Ok", "Cleared", "Failed"}]
    BY <1>2, <1>4 DEF RegistrationSuccess, TypeOK, report
  <2>5. UNCHANGED <<auth_info, usecount, pending_auth, pending_auths, r_retry>>
    BY <1>4 DEF RegistrationSuccess
  <2>6. QED BY <1>1, <1>3, <2>1, <2>2, <2>3, <2>4, <2>5 DEF TypeOK, config
<1>5. CASE RegistrationFailure(e)
  <2>1. r_reg_period' \subseteq j_reg /\ r_last_tr' \in [Ops -> Requests]
    BY <1>1, <1>5, SendAgainTypes DEF RegistrationFailure
  <2>2. state' \in [Configs -> {"None", "Progress", "Ok", "Cleared", "Failed"}]
    BY <1>2, <1>5 DEF RegistrationFailure, TypeOK
  <2>3. QED BY <1>1, <1>3, <1>5, <2>1, <2>2 DEF TypeOK, RegistrationFailure, config
<1>6. CASE Challenged(e)
  <2>0. CASE ~HasRealm(e)
    <3>1. UNCHANGED <<state, usecount, pending_auth, pending_auths, r_retry, r_last_tr,
                      registered, auth_info, works, r_reg_period>>
      BY <1>6, <2>0 DEF Challenged
    <3>2. QED BY <1>1, <1>3, <3>1 DEF TypeOK, config
  <2>1. CASE HasRealm(e) /\ MayTry(Account(e.op))
    <3>1. /\ r_retry' \in [Ops -> 0 .. MaxRetry] /\ r_last_tr' \in [Ops -> Requests]
      BY <1>2, <1>6, <2>1, SignTypes DEF Challenged
    <3>2. usecount' \in [Accounts -> 0 .. MaxRetry]
      BY <1>2, <1>6, <2>1, UsedTypes DEF Challenged, TypeOK
    <3>3. /\ pending_auth' = pending_auth \ {e.op}
          /\ UNCHANGED <<pending_auths, state, registered, auth_info, works, r_reg_period>>
      BY <1>6, <2>1 DEF Challenged
    <3>4. QED BY <1>1, <1>3, <3>1, <3>2, <3>3 DEF TypeOK, config
  <2>2. CASE HasRealm(e) /\ ~MayTry(Account(e.op))
    <3>1. /\ pending_auth' = pending_auth \cup {e.op}
          /\ pending_auths' = [pending_auths EXCEPT ![e.op] = pending_auths[e.op] + 1]
          /\ state' = [state EXCEPT ![e.op[1]] = "Failed"] \/ state' = state
          /\ UNCHANGED <<usecount, r_retry, r_last_tr, registered, auth_info, works, r_reg_period>>
      BY <1>6, <2>2 DEF Challenged
    <3>2. pending_auths' \in [Ops -> Nat]
      BY <1>2, <3>1 DEF TypeOK
    <3>3. state' \in [Configs -> {"None", "Progress", "Ok", "Cleared", "Failed"}]
      BY <1>2, <3>1 DEF TypeOK
    <3>4. QED BY <1>1, <1>2, <1>3, <3>1, <3>2, <3>3 DEF TypeOK, config
  <2>3. QED BY <2>0, <2>1, <2>2
<1>7. CASE UNCHANGED <<report, auth_info, works, usecount, pending_auth, pending_auths,
                       r_reg_period, r_retry, r_last_tr>>
  BY <1>1, <1>3, <1>7 DEF TypeOK, config, report
<1>8. QED BY <1>4, <1>5, <1>6, <1>7 DEF HandleEvent

LEMMA AddAuthInfoTypes ==
  ASSUME RegistrationInv, NEW a \in Accounts, AddAuthInfo(a)
  PROVE  /\ TypeOK'
         /\ pending_auth' \subseteq pending_auth
         /\ \A p \in pending_auth' : pending_auths'[p] = pending_auths[p]
         /\ UNCHANGED <<config, report, registers, j_reg, r_reg_period, events>>
         /\ \A p \in Ops :
              \/ p \in pending_auth' <=> p \in pending_auth
              \/ p \in j_reg => r_last_tr'[p].answer = "none" \/ r_retry'[p] = MaxRetry
         /\ \A p \in Ops : r_last_tr'[p] = r_last_tr[p] \/ r_last_tr'[p].answer = "none"
         /\ \A p \in Ops : r_last_tr'[p] = r_last_tr[p] => r_retry'[p] = r_retry[p] \/ r_last_tr[p].answer = "none"
<1> DEFINE fresh == [usecount EXCEPT ![a] = 0]
<1> USE DEF RegistrationInv
<1>1. /\ changes' \in Nat /\ auth_info' \subseteq Accounts /\ works' \subseteq auth_info'
      /\ UNCHANGED <<config, report, registers, j_reg, r_reg_period, events>>
  BY DEF AddAuthInfo, TypeOK
<1>2. fresh \in [Accounts -> 0 .. MaxRetry]
  BY Kinds DEF TypeOK
<1>3. CASE UNCHANGED <<pending_auth, pending_auths, r_retry, r_last_tr>> /\ usecount' = fresh
  <2>1. undefined' \in BOOLEAN
    BY <1>3 DEF AddAuthInfo, TypeOK
  <2>2. QED BY <1>1, <1>2, <1>3, <2>1 DEF TypeOK, config, report
<1>4. ASSUME NEW o \in Ops, o \in pending_auth, Forget(o), Sign(o),
             usecount' = Used(fresh, Account(o)), undefined' \in BOOLEAN
      PROVE  /\ TypeOK'
             /\ pending_auth' \subseteq pending_auth
             /\ \A p \in pending_auth' : pending_auths'[p] = pending_auths[p]
             /\ \A p \in Ops :
                  \/ p \in pending_auth' <=> p \in pending_auth
                  \/ p \in j_reg => r_last_tr'[p].answer = "none" \/ r_retry'[p] = MaxRetry
             /\ \A p \in Ops : r_last_tr'[p] = r_last_tr[p] \/ r_last_tr'[p].answer = "none"
             /\ \A p \in Ops : r_last_tr'[p] = r_last_tr[p] => r_retry'[p] = r_retry[p] \/ r_last_tr[p].answer = "none"
  <2>1. usecount' \in [Accounts -> 0 .. MaxRetry]
    BY <1>2, <1>4, UsedTypes, Kinds
  <2>2. /\ pending_auth' = pending_auth \ {o}
        /\ pending_auths' \in [Ops -> Nat]
        /\ \A p \in Ops : p # o => pending_auths'[p] = pending_auths[p]
    BY <1>4, ForgetTypes
  <2>3. /\ r_retry' \in [Ops -> 0 .. MaxRetry] /\ r_last_tr' \in [Ops -> Requests]
        /\ \A p \in Ops \ {o} : r_retry'[p] = r_retry[p] /\ r_last_tr'[p] = r_last_tr[p]
        /\ o \in j_reg => r_last_tr'[o].answer = "none" \/ r_retry'[o] = MaxRetry
        /\ r_last_tr'[o] = r_last_tr[o] \/ r_last_tr'[o].answer = "none"
    BY <1>4, SignTypes
  <2>4. r_last_tr'[o] = r_last_tr[o] => r_retry'[o] = r_retry[o] \/ r_last_tr[o].answer = "none"
    BY <1>4 DEF Sign, Transmit, InFlight, TypeOK
  <2>5. TypeOK'
    BY <1>1, <1>4, <2>1, <2>2, <2>3 DEF TypeOK, config, report
  <2>6. \A p \in pending_auth' : p \in Ops
    BY <2>5 DEF TypeOK
  <2>7. QED BY <2>2, <2>3, <2>4, <2>5, <2>6
<1>5. QED BY <1>1, <1>3, <1>4 DEF AddAuthInfo

(* What a transaction that is over tells of its answer.                    *)
Remembered(a) == IF a = "challenge" THEN "refused" ELSE a

LEMMA AnswerTypes ==
  ASSUME RegistrationInv, NEW o \in Ops, Answer(o)
  PROVE  /\ TypeOK'
         /\ UNCHANGED <<config, report, auth, sal, j_reg, r_reg_period, undefined>>
         /\ \E x \in Events :
              /\ x.op = o /\ events' = Append(events, x)
              /\ r_last_tr'[o].answer = Remembered(x.answer)
         /\ \A p \in Ops \ {o} : r_last_tr'[p] = r_last_tr[p] /\ r_retry'[p] = r_retry[p]
<1> USE DEF RegistrationInv
<1>1. PICK a \in {"ok", "challenge", "bare", "refused"}, m \in BOOLEAN :
        /\ r_last_tr' = [r_last_tr EXCEPT ![o] = Over(IF a = "challenge" THEN "refused" ELSE a)]
        /\ r_retry' = (IF a = "ok" THEN [r_retry EXCEPT ![o] = 0] ELSE r_retry)
        /\ events' = Append(events, [op |-> o, kind |-> r_last_tr[o].kind,
                              signed |-> r_last_tr[o].signed, answer |-> a, moved |-> m])
  BY DEF Answer
<1>2. UNCHANGED <<config, report, auth, sal, j_reg, r_reg_period, undefined>>
  BY DEF Answer
<1> DEFINE x == [op |-> o, kind |-> r_last_tr[o].kind, signed |-> r_last_tr[o].signed,
                 answer |-> a, moved |-> m]
           v == Over(Remembered(a))
<1>3. r_last_tr[o] \in Requests
  BY DEF TypeOK
<1>4. x \in Events /\ x.op = o /\ x.answer = a
  BY <1>3 DEF Requests, Events
<1>5. events' \in Seq(Events)
  BY <1>1, <1>4, AddLast DEF TypeOK
<1>6. v \in Requests /\ v.answer = Remembered(a)
  BY RequestKinds DEF Over, Remembered
<1>7. r_last_tr' \in [Ops -> Requests] /\ r_last_tr'[o] = v
      /\ \A p \in Ops \ {o} : r_last_tr'[p] = r_last_tr[p]
  BY <1>1, <1>6 DEF TypeOK, Remembered
<1>8. r_retry' \in [Ops -> 0 .. MaxRetry] /\ \A p \in Ops \ {o} : r_retry'[p] = r_retry[p]
  BY <1>1, Kinds DEF TypeOK
<1>10. TypeOK'
  BY <1>2, <1>5, <1>7, <1>8 DEF TypeOK, config, report, auth, sal
<1>11. QED BY <1>1, <1>2, <1>4, <1>6, <1>7, <1>8, <1>10

LEMMA RegisterTypes ==
  ASSUME RegistrationInv, NEW c \in Configs, Register(c)
  PROVE  /\ TypeOK'
         /\ <<c, op[c] + 1>> \in Ops
         /\ pending_auth' = pending_auth \ {Current(c)}
         /\ \A p \in pending_auth' : pending_auths'[p] = pending_auths[p]
         /\ \A p \in Ops : p \in j_reg /\ p \in j_reg' /\ p # <<c, op[c] + 1>>
              => r_last_tr'[p] = r_last_tr[p] /\ r_retry'[p] = r_retry[p]
<1> DEFINE o == <<c, op[c] + 1>>
<1> USE DEF RegistrationInv
<1>1. /\ ops < MaxOps /\ ops' = ops + 1 /\ op[c] <= ops /\ op[c] \in Nat /\ ops \in Nat
  BY Kinds DEF Register, ConfigsTakeTurns, TypeOK
<1>2. op[c] + 1 \in 1 .. MaxOps /\ op[c] + 1 \in 0 .. MaxOps /\ ops' \in 0 .. MaxOps
  BY <1>1, Kinds
<1>3. o \in Ops
  BY <1>2, OpPairs
<1>4. /\ pending_auth' = pending_auth \ {Current(c)}
      /\ pending_auths' \in [Ops -> Nat]
      /\ \A p \in Ops : p # Current(c) => pending_auths'[p] = pending_auths[p]
  BY ForgetTypes DEF Register
<1>5. /\ j_reg' \subseteq Ops /\ r_reg_period' \subseteq j_reg'
      /\ registers' \subseteq Ops /\ commit' \subseteq Configs
      /\ op' \in [Configs -> 0 .. MaxOps]
      /\ state' \in [Configs -> {"None", "Progress", "Ok", "Cleared", "Failed"}]
  BY <1>2, <1>3 DEF Register, Without, TypeOK
<1>6. r_retry' = [p \in Ops |-> IF p \in j_reg' THEN r_retry[p] ELSE 0]
  BY DEF Register
<1>7. r_last_tr' = [p \in Ops |-> IF p = o THEN Initial
                                 ELSE IF p \in j_reg' THEN r_last_tr[p] ELSE Over("ok")]
  BY DEF Register
<1>8. \A p \in Ops : r_retry[p] \in 0 .. MaxRetry /\ r_last_tr[p] \in Requests /\ 0 \in 0 .. MaxRetry
  BY Kinds DEF TypeOK
<1>9. r_retry' \in [Ops -> 0 .. MaxRetry]
  BY <1>6, <1>8
<1>10. r_last_tr' \in [Ops -> Requests]
  BY <1>7, <1>8, RequestKinds
<1>11. TypeOK'
  BY <1>2, <1>4, <1>5, <1>9, <1>10 DEF Register, TypeOK, auth
<1>12. \A p \in pending_auth' : pending_auths'[p] = pending_auths[p]
  BY <1>4, <1>11 DEF TypeOK
<1>13. \A p \in Ops : p \in j_reg /\ p \in j_reg' /\ p # o
              => r_last_tr'[p] = r_last_tr[p] /\ r_retry'[p] = r_retry[p]
  BY <1>6, <1>7
<1>14. QED BY <1>3, <1>4, <1>11, <1>12, <1>13

LEMMA KeepsTypes == RegistrationInv /\ Next => TypeOK'
<1> SUFFICES ASSUME RegistrationInv, Next PROVE TypeOK'
  OBVIOUS
<1>0. TypeOK
  BY DEF RegistrationInv
<1>1. ASSUME NEW c \in Configs, AddProxyConfig(c) PROVE TypeOK'
  BY <1>0, <1>1 DEF AddProxyConfig, TypeOK, report, auth, sal, exosip
<1>2. ASSUME NEW c \in Configs, Edit(c) PROVE TypeOK'
  <2>1. /\ registered' \subseteq registered /\ r_reg_period' \subseteq r_reg_period
        /\ r_last_tr' \in [Ops -> Requests]
    BY <1>2, UnregisterTypes DEF Edit
  <2>2. QED BY <1>0, <1>2, <2>1 DEF Edit, TypeOK, auth, sal
<1>3. ASSUME NEW c \in Configs, Done(c) PROVE TypeOK'
  BY <1>0, <1>3 DEF Done, TypeOK, report, auth, sal, exosip
<1>4. ASSUME NEW c \in Configs, RemoveProxyConfig(c) PROVE TypeOK'
  <2>1. /\ registered' \subseteq registered /\ r_reg_period' \subseteq r_reg_period
        /\ r_last_tr' \in [Ops -> Requests]
    BY <1>4, UnregisterTypes DEF RemoveProxyConfig
  <2>2. QED BY <1>0, <1>4, <2>1 DEF RemoveProxyConfig, TypeOK, auth, sal
<1>5. ASSUME NEW c \in Configs, CommitOnly(c) PROVE TypeOK'
  BY <1>0, <1>5 DEF CommitOnly, TypeOK, report, auth, sal, exosip
<1>6. ASSUME NEW c \in Configs, Register(c) PROVE TypeOK'
  BY <1>6, RegisterTypes
<1>7. ASSUME NEW c \in Configs, Destroy(c) PROVE TypeOK'
  <2>1. /\ pending_auth' = pending_auth \ {Current(c)} /\ pending_auths' \in [Ops -> Nat]
    BY <1>7, ForgetTypes DEF Destroy
  <2>2. QED BY <1>0, <1>7, <2>1 DEF Destroy, Without, TypeOK, auth, exosip
<1>8. ASSUME NEW up \in BOOLEAN, SetNetworkReachable(up) PROVE TypeOK'
  BY <1>0, <1>8 DEF SetNetworkReachable, Registering, TypeOK, auth, sal, exosip
<1>9. ASSUME NEW a \in Accounts, AddAuthInfo(a) PROVE TypeOK'
  BY <1>9, AddAuthInfoTypes
<1>10. ASSUME NEW a \in Accounts, RemoveAuthInfo(a) PROVE TypeOK'
  <2>1. usecount' \in [Accounts -> 0 .. MaxRetry]
    BY <1>0, <1>10, Kinds DEF RemoveAuthInfo, TypeOK
  <2>2. QED BY <1>0, <1>10, <2>1 DEF RemoveAuthInfo, TypeOK, config, report, sal, exosip
<1>11. CASE HandleEvent
  BY <1>11, HandleEventTypes
<1>12. ASSUME NEW o \in Ops, Refresh(o) PROVE TypeOK'
  <2>1. r_last_tr' \in [Ops -> Requests]
    BY <1>0, <1>12, TransmitTypes DEF Refresh
  <2>2. QED BY <1>0, <1>12, <2>1 DEF Refresh, TypeOK, config, report, auth, sal
<1>13. ASSUME NEW o \in Ops, Answer(o) PROVE TypeOK'
  BY <1>13, AnswerTypes
<1>14. QED BY <1>1, <1>2, <1>3, <1>4, <1>5, <1>6, <1>7, <1>8, <1>9, <1>10, <1>11, <1>12, <1>13
           DEF Next

-----------------------------------------------------------------------------
(* Configs and their turns.                                                *)
LEMMA KeepsTurns == RegistrationInv /\ Next => ConfigsTakeTurns'
<1> SUFFICES ASSUME RegistrationInv, Next PROVE ConfigsTakeTurns'
  OBVIOUS
<1>0. TypeOK /\ ConfigsTakeTurns
  BY DEF RegistrationInv
<1>1. ASSUME NEW c \in Configs, AddProxyConfig(c) PROVE ConfigsTakeTurns'
  BY <1>0, <1>1 DEF AddProxyConfig, TypeOK, ConfigsTakeTurns
<1>2. ASSUME NEW c \in Configs, Edit(c) PROVE ConfigsTakeTurns'
  BY <1>0, <1>2 DEF Edit, TypeOK, ConfigsTakeTurns
<1>3. ASSUME NEW c \in Configs, Done(c) PROVE ConfigsTakeTurns'
  BY <1>0, <1>3 DEF Done, TypeOK, ConfigsTakeTurns
<1>4. ASSUME NEW c \in Configs, RemoveProxyConfig(c) PROVE ConfigsTakeTurns'
  BY <1>0, <1>4 DEF RemoveProxyConfig, TypeOK, ConfigsTakeTurns
<1>5. ASSUME NEW c \in Configs, CommitOnly(c) PROVE ConfigsTakeTurns'
  BY <1>0, <1>5 DEF CommitOnly, TypeOK, ConfigsTakeTurns
<1>6. ASSUME NEW c \in Configs, Register(c) PROVE ConfigsTakeTurns'
  <2>1. /\ op' = [op EXCEPT ![c] = op[c] + 1] /\ ops' = ops + 1 /\ commit' = commit \ {c}
        /\ phase[c] = "listed" /\ UNCHANGED <<phase, editing>>
    BY <1>6 DEF Register
  <2>2. \A d \in Configs : op[d] \in Nat /\ op[d] <= ops /\ ops \in Nat
    BY <1>0, Kinds DEF TypeOK, ConfigsTakeTurns
  <2>3. \A d \in Configs : op'[d] <= ops'
    BY <1>0, <2>1, <2>2 DEF TypeOK
  <2>4. QED BY <1>0, <2>1, <2>3 DEF TypeOK, ConfigsTakeTurns
<1>7. ASSUME NEW c \in Configs, Destroy(c) PROVE ConfigsTakeTurns'
  BY <1>0, <1>7 DEF Destroy, TypeOK, ConfigsTakeTurns
<1>8. ASSUME NEW up \in BOOLEAN, SetNetworkReachable(up) PROVE ConfigsTakeTurns'
  BY <1>0, <1>8 DEF SetNetworkReachable, Registering, TypeOK, ConfigsTakeTurns
<1>9. CASE UNCHANGED config
  BY <1>0, <1>9 DEF config, ConfigsTakeTurns
<1>10. ASSUME NEW a \in Accounts, AddAuthInfo(a) \/ RemoveAuthInfo(a) PROVE UNCHANGED config
  BY <1>10 DEF AddAuthInfo, RemoveAuthInfo
<1>11. ASSUME HandleEvent PROVE UNCHANGED config
  BY <1>11 DEF HandleEvent
<1>12. ASSUME NEW o \in Ops, Refresh(o) \/ Answer(o) PROVE UNCHANGED config
  BY <1>12 DEF Refresh, Answer
<1>13. QED BY <1>1, <1>2, <1>3, <1>4, <1>5, <1>6, <1>7, <1>8, <1>9, <1>10, <1>11, <1>12
           DEF Next

(* What the SAL finds.  Most steps change neither configs nor registers.   *)
LEMMA KeepsRegisters == RegistrationInv /\ Next => OpsHaveConfigs'
<1> SUFFICES ASSUME RegistrationInv, Next PROVE OpsHaveConfigs'
  OBVIOUS
<1>0. TypeOK /\ OpsHaveConfigs /\ ConfigsTakeTurns
  BY DEF RegistrationInv
<1>1. ASSUME NEW c \in Configs, AddProxyConfig(c) PROVE OpsHaveConfigs'
  <2>1. /\ phase[c] = "new" /\ phase' = [phase EXCEPT ![c] = "listed"]
        /\ UNCHANGED <<op, registers>>
    BY <1>1 DEF AddProxyConfig, sal
  <2>2. op[c] = 0
    BY <1>0, <2>1 DEF ConfigsTakeTurns
  <2>3. \A o \in Ops : Live(o)' <=> Live(o)
    BY <1>0, <2>1, <2>2, OpPairs DEF Live, TypeOK
  <2>4. QED BY <1>0, <2>1, <2>3 DEF OpsHaveConfigs
<1>2. ASSUME NEW c \in Configs, RemoveProxyConfig(c) PROVE OpsHaveConfigs'
  <2>1. /\ phase[c] = "listed" /\ phase' = [phase EXCEPT ![c] = "deleted"]
        /\ UNCHANGED <<op, registers>>
    BY <1>2 DEF RemoveProxyConfig, sal
  <2>2. \A o \in Ops : Live(o)' <=> Live(o)
    BY <1>0, <2>1, OpPairs DEF Live, TypeOK
  <2>3. QED BY <1>0, <2>1, <2>2 DEF OpsHaveConfigs
<1>3. ASSUME NEW c \in Configs, Register(c) PROVE OpsHaveConfigs'
  <2>1. /\ phase[c] = "listed" /\ phase' = phase
        /\ op' = [op EXCEPT ![c] = op[c] + 1]
        /\ registers' = (registers \ {Current(c)}) \cup {<<c, op[c] + 1>>}
    BY <1>3 DEF Register, Without
  <2>2. op[c] \in Nat
    BY <1>0, Kinds DEF TypeOK
  <2>3. ASSUME NEW o \in Ops PROVE o \in registers' <=> Live(o)'
    <3>1. CASE o[1] = c
      <4>1. o = <<c, o[2]>> /\ o[2] \in Nat
        BY <3>1, OpPairs, Kinds
      <4>2. o \in registers <=> o[2] = op[c]
        BY <1>0, <2>1, <3>1 DEF OpsHaveConfigs, Live
      <4>3. o \in registers' <=> o[2] = op[c] + 1
        BY <2>1, <2>2, <4>1, <4>2, OpPairs DEF Current
      <4>4. Live(o)' <=> o[2] = op[c] + 1
        BY <1>0, <2>1, <3>1 DEF Live, TypeOK
      <4>5. QED BY <4>3, <4>4
    <3>2. CASE o[1] # c
      <4>1. o \in registers' <=> o \in registers
        BY <2>1, <3>2, OpPairs DEF Current
      <4>2. Live(o)' <=> Live(o)
        BY <1>0, <2>1, <3>2, OpPairs DEF Live, TypeOK
      <4>3. QED BY <1>0, <4>1, <4>2 DEF OpsHaveConfigs
    <3>3. QED BY <3>1, <3>2
  <2>4. QED BY <2>3 DEF OpsHaveConfigs
<1>4. ASSUME NEW c \in Configs, Destroy(c) PROVE OpsHaveConfigs'
  <2>1. /\ phase' = [phase EXCEPT ![c] = "gone"] /\ op' = op
        /\ registers' = registers \ {Current(c)}
    BY <1>4 DEF Destroy, Without
  <2>2. ASSUME NEW o \in Ops PROVE o \in registers' <=> Live(o)'
    <3>1. o = <<o[1], o[2]>> /\ o[1] \in Configs
      BY OpPairs
    <3>2. o = Current(c) <=> o[1] = c /\ o[2] = op[c]
      BY <3>1, OpPairs DEF Current
    <3>3. CASE o[1] = c
      BY <1>0, <2>1, <3>1, <3>2, <3>3 DEF Live, OpsHaveConfigs, TypeOK
    <3>4. CASE o[1] # c
      BY <1>0, <2>1, <3>1, <3>2, <3>4 DEF Live, OpsHaveConfigs, TypeOK
    <3>5. QED BY <3>3, <3>4
  <2>3. QED BY <2>2 DEF OpsHaveConfigs
<1>5. CASE UNCHANGED <<phase, op, registers>>
  BY <1>0, <1>5 DEF OpsHaveConfigs, Live
<1>6. ASSUME NEW c \in Configs, Edit(c) \/ Done(c) \/ CommitOnly(c)
      PROVE UNCHANGED <<phase, op, registers>>
  BY <1>6 DEF Edit, Done, CommitOnly, sal
<1>7. ASSUME NEW up \in BOOLEAN, SetNetworkReachable(up) PROVE UNCHANGED <<phase, op, registers>>
  BY <1>7 DEF SetNetworkReachable, sal
<1>8. ASSUME NEW a \in Accounts, AddAuthInfo(a) \/ RemoveAuthInfo(a)
      PROVE UNCHANGED <<phase, op, registers>>
  BY <1>8 DEF AddAuthInfo, RemoveAuthInfo, config, sal
<1>9. ASSUME HandleEvent PROVE UNCHANGED <<phase, op, registers>>
  BY <1>9 DEF HandleEvent, config
<1>10. ASSUME NEW o \in Ops, Refresh(o) \/ Answer(o) PROVE UNCHANGED <<phase, op, registers>>
  BY <1>10 DEF Refresh, Answer, config, sal
<1>11. QED BY <1>1, <1>2, <1>3, <1>4, <1>5, <1>6, <1>7, <1>8, <1>9, <1>10 DEF Next

(* Challenges and the list of them.                                        *)
LEMMA KeepsChallenges == RegistrationInv /\ Next => ChallengesAreListed'
<1> SUFFICES ASSUME RegistrationInv, Next PROVE ChallengesAreListed'
  OBVIOUS
<1>0. TypeOK /\ ChallengesAreListed
  BY DEF RegistrationInv
<1>1. ASSUME NEW c \in Configs, Register(c) PROVE ChallengesAreListed'
  <2>1. /\ pending_auth' = pending_auth \ {Current(c)}
        /\ \A p \in pending_auth' : pending_auths'[p] = pending_auths[p]
    BY <1>1, RegisterTypes
  <2>2. registers \ {Current(c)} \subseteq registers'
    BY <1>1 DEF Register, Without
  <2>3. QED BY <1>0, <2>1, <2>2 DEF ChallengesAreListed
<1>2. ASSUME NEW c \in Configs, Destroy(c) PROVE ChallengesAreListed'
  <2>1. /\ pending_auth' = pending_auth \ {Current(c)}
        /\ \A p \in Ops : p # Current(c) => pending_auths'[p] = pending_auths[p]
    BY <1>2, ForgetTypes DEF Destroy
  <2>2. registers \ {Current(c)} \subseteq registers'
    BY <1>2 DEF Destroy, Without
  <2>3. QED BY <1>0, <2>1, <2>2 DEF ChallengesAreListed, TypeOK
<1>3. ASSUME NEW a \in Accounts, AddAuthInfo(a) PROVE ChallengesAreListed'
  <2>1. /\ pending_auth' \subseteq pending_auth /\ registers' = registers
        /\ \A p \in pending_auth' : pending_auths'[p] = pending_auths[p]
    BY <1>3, AddAuthInfoTypes
  <2>2. QED BY <1>0, <2>1 DEF ChallengesAreListed
<1>4. CASE HandleEvent
  <2> DEFINE e == Head(events)
  <2>1. e \in Events /\ e.op \in Ops /\ registers' = registers
    <3>1. events # <<>> /\ registers' = registers
      BY <1>4 DEF HandleEvent
    <3>2. e \in Events
      BY <1>0, <3>1, TakeFirst DEF TypeOK
    <3>3. QED BY <3>1, <3>2 DEF Events
  <2>2. CASE e.op \in registers /\ Challenged(e)
    <3>0. CASE ~HasRealm(e)
      <4>1. UNCHANGED <<pending_auth, pending_auths>>
        BY <2>2, <3>0 DEF Challenged
      <4>2. QED BY <1>0, <2>1, <4>1 DEF ChallengesAreListed
    <3>1. CASE HasRealm(e) /\ MayTry(Account(e.op))
      <4>1. pending_auth' \subseteq pending_auth /\ pending_auths' = pending_auths
        BY <2>2, <3>1 DEF Challenged
      <4>2. QED BY <1>0, <2>1, <4>1 DEF ChallengesAreListed
    <3>2. CASE HasRealm(e) /\ ~MayTry(Account(e.op))
      <4>1. /\ pending_auth' = pending_auth \cup {e.op}
            /\ pending_auths' = [pending_auths EXCEPT ![e.op] = pending_auths[e.op] + 1]
        BY <2>2, <3>2 DEF Challenged
      <4>2. pending_auths[e.op] \in Nat
        BY <1>0, <2>1 DEF TypeOK
      <4>3. QED BY <1>0, <2>1, <2>2, <4>1, <4>2 DEF ChallengesAreListed, TypeOK
    <3>3. QED BY <3>0, <3>1, <3>2
  <2>3. CASE UNCHANGED <<pending_auth, pending_auths>>
    BY <1>0, <2>1, <2>3 DEF ChallengesAreListed
  <2>4. QED BY <1>4, <2>2, <2>3 DEF HandleEvent, RegistrationSuccess, RegistrationFailure
<1>5. CASE UNCHANGED sal
  BY <1>0, <1>5 DEF ChallengesAreListed, sal
<1>6. ASSUME NEW c \in Configs,
             AddProxyConfig(c) \/ Edit(c) \/ Done(c) \/ RemoveProxyConfig(c) \/ CommitOnly(c)
      PROVE UNCHANGED sal
  BY <1>6 DEF AddProxyConfig, Edit, Done, RemoveProxyConfig, CommitOnly
<1>7. ASSUME NEW up \in BOOLEAN, SetNetworkReachable(up) PROVE UNCHANGED sal
  BY <1>7 DEF SetNetworkReachable
<1>8. ASSUME NEW a \in Accounts, RemoveAuthInfo(a) PROVE UNCHANGED sal
  BY <1>8 DEF RemoveAuthInfo
<1>9. ASSUME NEW o \in Ops, Refresh(o) \/ Answer(o) PROVE UNCHANGED sal
  BY <1>9 DEF Refresh, Answer
<1>10. QED BY <1>1, <1>2, <1>3, <1>4, <1>5, <1>6, <1>7, <1>8, <1>9 DEF Next

(* The registrations of eXosip.                                            *)
LEMMA KeepsRegistrations == RegistrationInv /\ Next => OneRegistrationEach'
<1> SUFFICES ASSUME RegistrationInv, Next PROVE OneRegistrationEach'
  OBVIOUS
<1>0. TypeOK /\ OneRegistrationEach /\ ConfigsTakeTurns
  BY DEF RegistrationInv
<1>1. ASSUME NEW c \in Configs, AddProxyConfig(c) PROVE OneRegistrationEach'
  <2>1. /\ phase' = [phase EXCEPT ![c] = "listed"] /\ phase[c] = "new"
        /\ UNCHANGED <<op, j_reg>>
    BY <1>1 DEF AddProxyConfig, exosip
  <2>2. op[c] = 0
    BY <1>0, <2>1 DEF ConfigsTakeTurns
  <2>3. QED BY <1>0, <2>1, <2>2 DEF OneRegistrationEach, Current, TypeOK
<1>2. ASSUME NEW c \in Configs, RemoveProxyConfig(c) \/ Destroy(c) PROVE OneRegistrationEach'
  <2>1. /\ phase' = [phase EXCEPT ![c] = "deleted"] \/ phase' = [phase EXCEPT ![c] = "gone"]
        /\ UNCHANGED <<op, j_reg>>
    BY <1>2 DEF RemoveProxyConfig, Destroy, exosip
  <2>2. QED BY <1>0, <2>1 DEF OneRegistrationEach, Current, TypeOK
<1>3. ASSUME NEW c \in Configs, Register(c) PROVE OneRegistrationEach'
  <2> DEFINE o == <<c, op[c] + 1>>
  <2>1. /\ phase[c] = "listed" /\ phase' = phase
        /\ op' = [op EXCEPT ![c] = op[c] + 1]
        /\ j_reg' = {p \in j_reg : Account(p) # Account(o)} \cup {o}
    BY <1>3 DEF Register
  <2>2. o \in Ops /\ o[1] = c /\ o[2] = op[c] + 1 /\ op[c] \in Nat /\ Account(o) = AccountOf[c]
    BY <1>0, <1>3, RegisterTypes, Kinds, OpPairs DEF TypeOK, Account
  <2>3. \A p, q \in j_reg' : Account(p) = Account(q) => p = q
    BY <1>0, <2>1 DEF OneRegistrationEach
  <2>4. ASSUME NEW p \in j_reg' PROVE 0 < p[2] /\ p[2] = op'[p[1]]
    <3>1. CASE p = o
      BY <1>0, <2>1, <2>2, <3>1 DEF TypeOK
    <3>2. CASE p # o
      <4>1. p \in j_reg /\ p \in Ops /\ Account(p) # Account(o)
        BY <1>0, <2>1, <3>2 DEF TypeOK
      <4>2. p[1] \in Configs /\ p[1] # c
        BY <2>2, <4>1, OpPairs DEF Account
      <4>3. QED BY <1>0, <2>1, <4>1, <4>2 DEF OneRegistrationEach, TypeOK
    <3>3. QED BY <3>1, <3>2
  <2>5. ASSUME NEW d \in Configs, phase[d] = "listed", op'[d] > 0 PROVE Current(d)' \in j_reg'
    <3>1. CASE d = c
      BY <1>0, <2>1, <3>1 DEF Current, TypeOK
    <3>2. CASE d # c
      <4>1. op'[d] = op[d] /\ Current(d)' = Current(d)
        BY <1>0, <2>1, <3>2 DEF Current, TypeOK
      <4>2. Current(d) \in j_reg /\ Account(Current(d)) = AccountOf[d]
        BY <1>0, <2>5, <4>1, OpPairs DEF OneRegistrationEach, Current, Account
      <4>3. AccountOf[d] # AccountOf[c]
        BY <1>0, <2>1, <2>5, <3>2 DEF ConfigsTakeTurns
      <4>4. QED BY <2>1, <2>2, <4>1, <4>2, <4>3
    <3>3. QED BY <3>1, <3>2
  <2>6. QED BY <2>1, <2>3, <2>4, <2>5 DEF OneRegistrationEach
<1>4. CASE UNCHANGED <<phase, op, j_reg>>
  BY <1>0, <1>4 DEF OneRegistrationEach, Current
<1>5. ASSUME NEW c \in Configs, Edit(c) \/ Done(c) \/ CommitOnly(c)
      PROVE UNCHANGED <<phase, op, j_reg>>
  BY <1>5 DEF Edit, Done, CommitOnly, exosip
<1>6. ASSUME NEW up \in BOOLEAN, SetNetworkReachable(up) PROVE UNCHANGED <<phase, op, j_reg>>
  BY <1>6 DEF SetNetworkReachable, exosip
<1>7. ASSUME NEW a \in Accounts, AddAuthInfo(a) \/ RemoveAuthInfo(a)
      PROVE UNCHANGED <<phase, op, j_reg>>
  BY <1>7 DEF AddAuthInfo, RemoveAuthInfo, config, exosip
<1>8. ASSUME HandleEvent PROVE UNCHANGED <<phase, op, j_reg>>
  BY <1>8 DEF HandleEvent, config
<1>9. ASSUME NEW o \in Ops, Refresh(o) \/ Answer(o) PROVE UNCHANGED <<phase, op, j_reg>>
  BY <1>9 DEF Refresh, Answer, config
<1>10. QED BY <1>1, <1>2, <1>3, <1>4, <1>5, <1>6, <1>7, <1>8, <1>9 DEF Next

-----------------------------------------------------------------------------
LEMMA RegistrationBegins == Init => RegistrationInv
<1> SUFFICES ASSUME Init PROVE RegistrationInv
  OBVIOUS
<1>1. Over("ok") \in Requests /\ 0 \in 0 .. MaxRetry /\ 0 \in 0 .. MaxOps /\ <<>> \in Seq(Events)
  BY RequestKinds, Kinds
<1>2. TypeOK
  BY <1>1 DEF Init, TypeOK
<1>3. OpsHaveConfigs
  BY OpPairs DEF Init, OpsHaveConfigs, Live
<1>4. ChallengesAreListed /\ OneRegistrationEach /\ ConfigsTakeTurns
  BY DEF Init, ChallengesAreListed, OneRegistrationEach, ConfigsTakeTurns
<1>5. QED BY <1>2, <1>3, <1>4 DEF RegistrationInv

LEMMA RegistrationStep == RegistrationInv /\ [Next]_vars => RegistrationInv'
<1>1. RegistrationInv /\ Next => RegistrationInv'
  BY KeepsTypes, KeepsTurns, KeepsRegisters, KeepsChallenges, KeepsRegistrations
     DEF RegistrationInv
<1>2. RegistrationInv /\ UNCHANGED vars => RegistrationInv'
  BY DEF vars, config, report, auth, sal, exosip, RegistrationInv, TypeOK, OpsHaveConfigs,
         Live, ChallengesAreListed, OneRegistrationEach, ConfigsTakeTurns, Current
<1>3. QED BY <1>1, <1>2

(* Configs, their ops, the challenges and eXosip's registrations belong    *)
(* together, whatever the order of edits, removals, answers and passwords: *)
(* an answer never reaches a config that is gone, and no listed config     *)
(* loses its registration in eXosip to another.                            *)
THEOREM RegistrationInvariant == Spec => []RegistrationInv
  BY RegistrationBegins, RegistrationStep, PTL DEF Spec

-----------------------------------------------------------------------------
(* The registrations that are kept alive.                                  *)
LEMMA KeepsServed == RegistrationInv /\ NoneIsForgotten /\ Next => NoneIsForgotten'
<1> SUFFICES ASSUME RegistrationInv, NoneIsForgotten, Next PROVE NoneIsForgotten'
  OBVIOUS
<1>0. TypeOK /\ ConfigsTakeTurns
  BY DEF RegistrationInv
<1>1. ASSUME NEW c \in Configs, AddProxyConfig(c) PROVE NoneIsForgotten'
  <2>1. /\ phase' = [phase EXCEPT ![c] = "listed"] /\ commit' = commit \cup {c}
        /\ enabled' \subseteq enabled \cup {c}
        /\ UNCHANGED <<editing, op, network_reachable, r_reg_period>>
    BY <1>1 DEF AddProxyConfig, exosip
  <2>2. QED BY <1>0, <2>1 DEF NoneIsForgotten, Current, TypeOK
<1>2. ASSUME NEW c \in Configs, Edit(c) PROVE NoneIsForgotten'
  <2>1. \A o \in r_reg_period : o # Current(c) => o \in r_reg_period'
    BY <1>2, UnregisterTypes DEF Edit
  <2>2. editing' = editing \cup {c} /\ UNCHANGED <<phase, enabled, commit, op, network_reachable>>
    BY <1>2 DEF Edit
  <2>3. \A d \in Configs : d # c => Current(d) # Current(c)
    BY DEF Current
  <2>4. QED BY <1>0, <2>1, <2>2, <2>3 DEF NoneIsForgotten, Current, TypeOK
<1>3. ASSUME NEW c \in Configs, Done(c) PROVE NoneIsForgotten'
  <2>1. /\ commit' = commit \cup {c} /\ editing' = editing \ {c}
        /\ enabled' \subseteq enabled \cup {c}
        /\ UNCHANGED <<phase, op, network_reachable, r_reg_period>>
    BY <1>3 DEF Done, exosip
  <2>2. QED BY <2>1 DEF NoneIsForgotten, Current
<1>4. ASSUME NEW c \in Configs, RemoveProxyConfig(c) PROVE NoneIsForgotten'
  <2>1. \A o \in r_reg_period : o # Current(c) => o \in r_reg_period'
    BY <1>4, UnregisterTypes DEF RemoveProxyConfig
  <2>2. /\ phase' = [phase EXCEPT ![c] = "deleted"] /\ editing' = editing \ {c}
        /\ UNCHANGED <<enabled, commit, op, network_reachable>>
    BY <1>4 DEF RemoveProxyConfig
  <2>3. \A d \in Configs : d # c => Current(d) # Current(c)
    BY DEF Current
  <2>4. QED BY <1>0, <2>1, <2>2, <2>3 DEF NoneIsForgotten, Current, TypeOK
<1>5. ASSUME NEW c \in Configs, CommitOnly(c) PROVE NoneIsForgotten'
  <2>1. /\ c \notin enabled \/ ~network_reachable
        /\ commit' = commit \ {c}
        /\ UNCHANGED <<phase, editing, enabled, op, network_reachable, r_reg_period>>
    BY <1>5 DEF CommitOnly, exosip
  <2>2. QED BY <2>1 DEF NoneIsForgotten, Current
<1>6. ASSUME NEW c \in Configs, Register(c) PROVE NoneIsForgotten'
  <2> DEFINE o == <<c, op[c] + 1>>
  <2>1. /\ phase[c] = "listed" /\ commit' = commit \ {c}
        /\ op' = [op EXCEPT ![c] = op[c] + 1]
        /\ r_reg_period' = {p \in r_reg_period : Account(p) # Account(o)} \cup {o}
        /\ UNCHANGED <<phase, editing, enabled, network_reachable>>
    BY <1>6 DEF Register
  <2>2. Account(o) = AccountOf[c]
    BY OpPairs DEF Account
  <2>3. ASSUME NEW d \in enabled \ (commit' \cup editing), phase[d] = "listed", network_reachable
        PROVE  Current(d)' \in r_reg_period'
    <3>0. d \in Configs
      BY <1>0 DEF TypeOK
    <3>1. CASE d = c
      BY <1>0, <2>1, <3>1 DEF Current, TypeOK
    <3>2. CASE d # c
      <4>1. Current(d)' = Current(d) /\ Account(Current(d)) = AccountOf[d]
        BY <1>0, <2>1, <3>0, <3>2, OpPairs DEF Current, Account, TypeOK
      <4>2. AccountOf[d] # AccountOf[c]
        BY <1>0, <2>1, <2>3, <3>0, <3>2 DEF ConfigsTakeTurns
      <4>3. Current(d) \in r_reg_period
        BY <2>1, <2>3, <3>2 DEF NoneIsForgotten
      <4>4. QED BY <2>1, <2>2, <4>1, <4>2, <4>3
    <3>3. QED BY <3>1, <3>2
  <2>4. QED BY <2>1, <2>3 DEF NoneIsForgotten
<1>7. ASSUME NEW c \in Configs, Destroy(c) PROVE NoneIsForgotten'
  <2>1. /\ phase' = [phase EXCEPT ![c] = "gone"] /\ enabled' = enabled \ {c}
        /\ commit' = commit \ {c}
        /\ UNCHANGED <<editing, op, network_reachable, r_reg_period>>
    BY <1>7 DEF Destroy, exosip
  <2>2. QED BY <1>0, <2>1 DEF NoneIsForgotten, Current, TypeOK
<1>8. ASSUME NEW up \in BOOLEAN, SetNetworkReachable(up) PROVE NoneIsForgotten'
  <2>1. CASE up
    BY <1>0, <1>8, <2>1 DEF SetNetworkReachable, Registering, NoneIsForgotten, TypeOK
  <2>2. CASE ~up
    BY <1>8, <2>2 DEF SetNetworkReachable, NoneIsForgotten
  <2>3. QED BY <2>1, <2>2
<1>9. CASE UNCHANGED config /\ r_reg_period \subseteq r_reg_period'
  BY <1>9 DEF config, NoneIsForgotten, Current
<1>10. ASSUME NEW a \in Accounts, AddAuthInfo(a) \/ RemoveAuthInfo(a)
       PROVE UNCHANGED config /\ r_reg_period \subseteq r_reg_period'
  BY <1>10 DEF AddAuthInfo, RemoveAuthInfo, exosip
<1>11. ASSUME HandleEvent PROVE UNCHANGED config /\ r_reg_period \subseteq r_reg_period'
  <2>1. UNCHANGED config /\ events # <<>>
    BY <1>11 DEF HandleEvent
  <2>2. Head(events) \in Events
    BY <1>0, <2>1, TakeFirst DEF TypeOK
  <2>3. SendAgain(Head(events)) \/ r_reg_period' = r_reg_period
    BY <1>11 DEF HandleEvent, RegistrationSuccess, RegistrationFailure, Challenged
  <2>4. QED BY <2>1, <2>2, <2>3, SendAgainTypes
<1>12. ASSUME NEW o \in Ops, Refresh(o) \/ Answer(o)
       PROVE UNCHANGED config /\ r_reg_period \subseteq r_reg_period'
  BY <1>12 DEF Refresh, Answer
<1>13. QED BY <1>1, <1>2, <1>3, <1>4, <1>5, <1>6, <1>7, <1>8, <1>9, <1>10, <1>11, <1>12
           DEF Next

(* While the network is up no listed config is left unregistered: neither  *)
(* the commits dropped while it was down nor edits and removals of other   *)
(* configs make the core forget one.                                       *)
THEOREM NoConfigIsForgotten == Spec => []NoneIsForgotten
<1>1. Init => NoneIsForgotten
  BY DEF Init, NoneIsForgotten
<1>2. NoneIsForgotten /\ UNCHANGED vars => NoneIsForgotten'
  BY DEF vars, config, exosip, NoneIsForgotten, Current
<1>3. RegistrationInv /\ NoneIsForgotten /\ [Next]_vars => NoneIsForgotten'
  BY <1>2, KeepsServed
<1>4. QED BY <1>1, <1>3, RegistrationInvariant, PTL DEF Spec
-----------------------------------------------------------------------------
(* What the application is shown.  The last event that waits for an op     *)
(* tells the answer of its last transaction.                               *)
LastOf(o, i) == events[i].op = o /\ \A j \in 1 .. Len(events) : events[j].op = o => j <= i

EventsTellLast ==
  \A o \in j_reg, i \in 1 .. Len(events) :
    LastOf(o, i) /\ ~InFlight(o) => r_last_tr[o].answer = Remembered(events[i].answer)

ShownInv == RegistrationInv /\ EventsTellLast

(* What OkIsCurrent says of an op.                                         *)
Accounted(o) ==
  \/ r_last_tr[o].answer \in {"ok", "none", "bare"}
  \/ \E i \in 1 .. Len(events) : events[i].op = o
  \/ o \in pending_auth
  \/ r_retry[o] = MaxRetry

LEMMA ShownOps ==
  OkIsCurrent <=>
    \A c \in Configs : state[c] = "Ok" /\ Current(c) \in registers \cap j_reg => Accounted(Current(c))
  BY DEF OkIsCurrent, Accounted

(* Requests that begin leave what the events tell.                         *)
LEMMA StillTold ==
  ASSUME TypeOK, EventsTellLast, events' = events, j_reg' \subseteq j_reg,
         \A p \in j_reg' : r_last_tr'[p] = r_last_tr[p] \/ r_last_tr'[p].answer = "none"
  PROVE  EventsTellLast'
<1> SUFFICES ASSUME NEW o \in j_reg', NEW i \in 1 .. Len(events), LastOf(o, i), ~InFlight(o)'
             PROVE  r_last_tr'[o].answer = Remembered(events[i].answer)
  BY DEF EventsTellLast, LastOf
<1>1. r_last_tr'[o] = r_last_tr[o] /\ ~InFlight(o)
  BY DEF InFlight
<1>2. QED BY <1>1 DEF EventsTellLast

LEMMA KeepsTelling == RegistrationInv /\ EventsTellLast /\ Next => EventsTellLast'
<1> SUFFICES ASSUME RegistrationInv, EventsTellLast, Next PROVE EventsTellLast'
  OBVIOUS
<1>0. TypeOK
  BY DEF RegistrationInv
<1>1. ASSUME NEW c \in Configs, Edit(c) \/ RemoveProxyConfig(c) PROVE EventsTellLast'
  <2>1. /\ UNCHANGED <<events, j_reg>>
        /\ \A p \in Ops : r_last_tr'[p] = r_last_tr[p] \/ r_last_tr'[p].answer = "none"
    BY <1>1, UnregisterTypes DEF Edit, RemoveProxyConfig
  <2>2. QED BY <1>0, <2>1, StillTold DEF TypeOK
<1>2. ASSUME NEW c \in Configs, Register(c) PROVE EventsTellLast'
  <2> DEFINE o == <<c, op[c] + 1>>
  <2>1. o \in Ops /\ TypeOK'
    BY <1>2, RegisterTypes
  <2>2. /\ events' = events
        /\ j_reg' = {p \in j_reg : Account(p) # Account(o)} \cup {o}
        /\ r_last_tr' = [p \in Ops |-> IF p = o THEN Initial
                                 ELSE IF p \in j_reg' THEN r_last_tr[p] ELSE Over("ok")]
    BY <1>2 DEF Register
  <2>3. r_last_tr'[o].answer = "none"
    BY <2>1, <2>2 DEF Initial
  <2>4. ASSUME NEW p \in j_reg', NEW i \in 1 .. Len(events), LastOf(p, i), ~InFlight(p)'
        PROVE  r_last_tr'[p].answer = Remembered(events[i].answer)
    <3>1. p # o
      BY <2>3, <2>4 DEF InFlight
    <3>2. p \in j_reg /\ p \in Ops
      BY <1>0, <2>2, <3>1 DEF TypeOK
    <3>3. r_last_tr'[p] = r_last_tr[p]
      BY <2>2, <2>4, <3>1, <3>2
    <3>4. ~InFlight(p)
      BY <2>4, <3>3 DEF InFlight
    <3>5. QED BY <2>4, <3>2, <3>3, <3>4 DEF EventsTellLast
  <2>5. QED BY <2>2, <2>4 DEF EventsTellLast, LastOf
<1>3. ASSUME NEW a \in Accounts, AddAuthInfo(a) PROVE EventsTellLast'
  <2>1. /\ UNCHANGED <<events, j_reg>>
        /\ \A p \in Ops : r_last_tr'[p] = r_last_tr[p] \/ r_last_tr'[p].answer = "none"
    BY <1>3, AddAuthInfoTypes
  <2>2. QED BY <1>0, <2>1, StillTold DEF TypeOK
<1>4. CASE HandleEvent
  <2> DEFINE e == Head(events)
  <2>1. /\ events # <<>> /\ events' = Tail(events) /\ j_reg' = j_reg
    BY <1>4 DEF HandleEvent
  <2>2. /\ e \in Events /\ Len(events) \in Nat \ {0} /\ Len(events') = Len(events) - 1
        /\ \A i \in 1 .. Len(events') : i + 1 \in 1 .. Len(events) /\ events'[i] = events[i + 1]
    BY <1>0, <2>1, TakeFirst DEF TypeOK
  <2>3. e.op \in Ops
    BY <2>2 DEF Events
  <2>4. \A p \in Ops : r_last_tr'[p] = r_last_tr[p] \/ r_last_tr'[p].answer = "none"
    BY <1>4, <2>2, <2>3, RequestEffects DEF HandleEvent
  <2>5. ASSUME NEW p \in j_reg, NEW i \in 1 .. Len(events'), LastOf(p, i)', ~InFlight(p)'
        PROVE  r_last_tr'[p].answer = Remembered(events'[i].answer)
    <3>1. p \in Ops
      BY <1>0 DEF TypeOK
    <3>2. r_last_tr'[p] = r_last_tr[p] /\ ~InFlight(p)
      BY <2>4, <2>5, <3>1 DEF InFlight
    <3>3. i + 1 \in 1 .. Len(events) /\ events'[i] = events[i + 1]
      BY <2>2
    <3>4. ASSUME NEW j \in 1 .. Len(events), events[j].op = p PROVE j <= i + 1
      <4>1. CASE j = 1
        BY <3>3, <4>1
      <4>2. CASE j # 1
        <5>1. j - 1 \in 1 .. Len(events')
          BY <2>2, <4>2
        <5>2. events'[j - 1] = events[(j - 1) + 1] /\ (j - 1) + 1 = j
          BY <2>2, <5>1
        <5>3. j - 1 <= i
          BY <2>5, <3>4, <5>1, <5>2 DEF LastOf
        <5>4. QED BY <5>3, <2>2
      <4>3. QED BY <4>1, <4>2
    <3>5. LastOf(p, i + 1)
      BY <2>5, <3>3, <3>4 DEF LastOf
    <3>6. QED BY <3>2, <3>3, <3>5 DEF EventsTellLast
  <2>6. QED BY <2>1, <2>5 DEF EventsTellLast
<1>5. ASSUME NEW o \in Ops, Refresh(o) PROVE EventsTellLast'
  <2>1. /\ UNCHANGED <<events, j_reg>> /\ Transmit(o, "register", FALSE)
    BY <1>5 DEF Refresh
  <2>2. /\ r_last_tr'[o].answer = "none" /\ \A p \in Ops \ {o} : r_last_tr'[p] = r_last_tr[p]
    BY <1>0, <2>1, TransmitTypes
  <2>3. QED BY <1>0, <2>1, <2>2, StillTold DEF TypeOK
<1>6. ASSUME NEW o \in Ops, Answer(o) PROVE EventsTellLast'
  <2>1. /\ j_reg' = j_reg
        /\ \E x \in Events :
              /\ x.op = o /\ events' = Append(events, x)
              /\ r_last_tr'[o].answer = Remembered(x.answer)
        /\ \A p \in Ops \ {o} : r_last_tr'[p] = r_last_tr[p]
    BY <1>6, AnswerTypes
  <2>2. PICK x \in Events : /\ x.op = o /\ events' = Append(events, x)
                            /\ r_last_tr'[o].answer = Remembered(x.answer)
    BY <2>1
  <2>3. /\ Len(events) \in Nat /\ Len(events') = Len(events) + 1
        /\ \A i \in 1 .. Len(events) : events'[i] = events[i]
        /\ events'[Len(events) + 1] = x
    BY <1>0, <2>2, AddLast DEF TypeOK
  <2>4. ASSUME NEW p \in j_reg, NEW i \in 1 .. Len(events'), LastOf(p, i)', ~InFlight(p)'
        PROVE  r_last_tr'[p].answer = Remembered(events'[i].answer)
    <3>1. CASE p = o
      <4>1. Len(events) + 1 <= i
        BY <2>2, <2>3, <2>4, <3>1 DEF LastOf
      <4>2. i = Len(events) + 1
        BY <2>3, <4>1
      <4>3. QED BY <2>2, <2>3, <3>1, <4>2
    <3>2. CASE p # o
      <4>1. p \in Ops /\ r_last_tr'[p] = r_last_tr[p] /\ ~InFlight(p)
        BY <1>0, <2>1, <2>4, <3>2 DEF TypeOK, InFlight
      <4>2. i # Len(events) + 1
        BY <2>2, <2>3, <2>4, <3>2 DEF LastOf
      <4>3. i \in 1 .. Len(events) /\ events'[i] = events[i]
        BY <2>3, <4>2
      <4>4. ASSUME NEW j \in 1 .. Len(events), events[j].op = p PROVE j <= i
        <5>1. j \in 1 .. Len(events') /\ events'[j].op = p
          BY <2>3, <4>4
        <5>2. QED BY <2>4, <5>1 DEF LastOf
      <4>5. LastOf(p, i)
        BY <2>4, <4>3, <4>4 DEF LastOf
      <4>6. QED BY <4>1, <4>3, <4>5 DEF EventsTellLast
    <3>3. QED BY <3>1, <3>2
  <2>5. QED BY <2>1, <2>4 DEF EventsTellLast
<1>7. CASE UNCHANGED <<events, j_reg, r_last_tr>>
  BY <1>0, <1>7, StillTold DEF TypeOK
<1>8. ASSUME NEW c \in Configs, AddProxyConfig(c) \/ Done(c) \/ CommitOnly(c) \/ Destroy(c)
      PROVE UNCHANGED <<events, j_reg, r_last_tr>>
  BY <1>8 DEF AddProxyConfig, Done, CommitOnly, Destroy, exosip
<1>9. ASSUME NEW up \in BOOLEAN, SetNetworkReachable(up) PROVE UNCHANGED <<events, j_reg, r_last_tr>>
  BY <1>9 DEF SetNetworkReachable, exosip
<1>10. ASSUME NEW a \in Accounts, RemoveAuthInfo(a) PROVE UNCHANGED <<events, j_reg, r_last_tr>>
  BY <1>10 DEF RemoveAuthInfo, exosip
<1>11. QED BY <1>1, <1>2, <1>3, <1>4, <1>5, <1>6, <1>7, <1>8, <1>9, <1>10 DEF Next

LEMMA KeepsShown == ShownInv /\ OkIsCurrent /\ Next => OkIsCurrent'
<1> SUFFICES ASSUME ShownInv, OkIsCurrent, Next PROVE OkIsCurrent'
  OBVIOUS
<1>0. TypeOK /\ RegistrationInv /\ EventsTellLast
  BY DEF RegistrationInv, ShownInv
<1> DEFINE Shown(c) == state[c] = "Ok" /\ Current(c) \in registers \cap j_reg
<1>a. \A c \in Configs : Shown(c) => Accounted(Current(c))
  BY ShownOps
<1>b. SUFFICES ASSUME NEW d \in Configs, Shown(d)' PROVE Accounted(Current(d))'
  BY DEF OkIsCurrent, Accounted
<1>c. /\ state'[d] = "Ok" /\ Current(d)' \in registers' /\ Current(d)' \in j_reg'
      /\ Current(d)' = <<d, op'[d]>>
  BY <1>b DEF Current
<1>1. ASSUME NEW c \in Configs, Edit(c) \/ RemoveProxyConfig(c) PROVE Accounted(Current(d))'
  <2>1. /\ UNCHANGED <<op, state, events, j_reg, registers, pending_auth, r_retry>>
        /\ \A p \in Ops : r_last_tr'[p] = r_last_tr[p] \/ r_last_tr'[p].answer = "none"
    BY <1>0, <1>1, UnregisterTypes DEF Edit, RemoveProxyConfig, sal
  <2>2. Current(d)' = Current(d) /\ Shown(d) /\ Current(d) \in Ops
    BY <1>0, <1>b, <2>1 DEF Current, TypeOK
  <2>3. Accounted(Current(d))
    BY <1>a, <2>2
  <2>4. QED BY <2>1, <2>2, <2>3 DEF Accounted
<1>2. ASSUME NEW c \in Configs, Register(c) PROVE Accounted(Current(d))'
  <2> DEFINE o == <<c, op[c] + 1>>
  <2>1. /\ o \in Ops /\ pending_auth' = pending_auth \ {Current(c)}
        /\ \A p \in Ops : p \in j_reg /\ p \in j_reg' /\ p # o
              => r_last_tr'[p] = r_last_tr[p] /\ r_retry'[p] = r_retry[p]
    BY <1>0, <1>2, RegisterTypes
  <2>2. /\ state' = [state EXCEPT ![c] = "Progress"] /\ op' = [op EXCEPT ![c] = op[c] + 1]
        /\ registers' = (registers \ {Current(c)}) \cup {o}
        /\ j_reg' = {p \in j_reg : Account(p) # Account(o)} \cup {o}
        /\ events' = events
    BY <1>2 DEF Register, Without
  <2>3. d # c
    BY <1>0, <1>c, <2>2 DEF TypeOK
  <2>4. Current(d)' = Current(d) /\ Current(d) # o /\ Current(d) # Current(c)
    BY <1>0, <1>c, <2>2, <2>3, OpPairs DEF Current, TypeOK
  <2>5. state[d] = "Ok" /\ Current(d) \in registers /\ Current(d) \in j_reg /\ Current(d) \in Ops
    BY <1>0, <1>c, <2>2, <2>3, <2>4 DEF TypeOK
  <2>6. Accounted(Current(d))
    BY <1>a, <2>5
  <2>7. r_last_tr'[Current(d)] = r_last_tr[Current(d)] /\ r_retry'[Current(d)] = r_retry[Current(d)]
    BY <1>c, <2>1, <2>4, <2>5
  <2>8. QED BY <2>1, <2>2, <2>4, <2>6, <2>7 DEF Accounted
<1>3. ASSUME NEW c \in Configs, Destroy(c) PROVE Accounted(Current(d))'
  <2>1. /\ state' = [state EXCEPT ![c] = "None"] /\ registers' = registers \ {Current(c)}
        /\ pending_auth' = pending_auth \ {Current(c)}
        /\ UNCHANGED <<op, events, j_reg, r_last_tr, r_retry>>
    BY <1>3 DEF Destroy, Without, Forget, exosip
  <2>2. d # c
    BY <1>0, <1>c, <2>1 DEF TypeOK
  <2>3. Current(d)' = Current(d) /\ Current(d) # Current(c) /\ Shown(d)
    BY <1>0, <1>c, <2>1, <2>2 DEF Current, TypeOK
  <2>4. Accounted(Current(d))
    BY <1>a, <2>3
  <2>5. QED BY <2>1, <2>3, <2>4 DEF Accounted
<1>4. ASSUME NEW a \in Accounts, AddAuthInfo(a) PROVE Accounted(Current(d))'
  <2> DEFINE p == Current(d)
  <2>1. UNCHANGED <<config, report, registers, j_reg, events>>
    BY <1>0, <1>4, AddAuthInfoTypes
  <2>2. Current(d)' = p /\ Shown(d) /\ p \in Ops /\ p \in j_reg
    BY <1>0, <1>c, <2>1 DEF Current, TypeOK, config, report
  <2>3. /\ \/ p \in pending_auth' <=> p \in pending_auth
           \/ p \in j_reg => r_last_tr'[p].answer = "none" \/ r_retry'[p] = MaxRetry
        /\ r_last_tr'[p] = r_last_tr[p] \/ r_last_tr'[p].answer = "none"
        /\ r_last_tr'[p] = r_last_tr[p] => r_retry'[p] = r_retry[p] \/ r_last_tr[p].answer = "none"
    BY <1>0, <1>4, <2>2, AddAuthInfoTypes
  <2>4. Accounted(p)
    BY <1>a, <2>2
  <2>5. QED BY <2>1, <2>2, <2>3, <2>4 DEF Accounted
<1>5. CASE HandleEvent
  <2> DEFINE e == Head(events)
             p == Current(d)
  <2>1. /\ events # <<>> /\ events' = Tail(events)
        /\ UNCHANGED <<op, registers, j_reg>>
    BY <1>5 DEF HandleEvent, config
  <2>2. /\ e \in Events /\ e = events[1] /\ Len(events) \in Nat \ {0} /\ Len(events') = Len(events) - 1
        /\ \A i \in 1 .. Len(events') : i + 1 \in 1 .. Len(events) /\ events'[i] = events[i + 1]
    BY <1>0, <2>1, TakeFirst DEF TypeOK
  <2>3. e.op \in Ops /\ e.op[1] \in Configs
    BY <2>2, OpPairs DEF Events
  <2>4. Current(d)' = p /\ p \in registers /\ p \in j_reg /\ p \in Ops /\ p[1] = d
    BY <1>0, <1>c, <2>1, OpPairs DEF Current, TypeOK
  <2>5. \A q \in Ops : q \in registers => q = Current(q[1])
    BY <1>0, OpPairs DEF RegistrationInv, OpsHaveConfigs, Live, Current
  <2>6. \A i \in 1 .. Len(events) : i # 1 =>
           i - 1 \in 1 .. Len(events') /\ events'[i - 1] = events[(i - 1) + 1] /\ (i - 1) + 1 = i
    BY <2>2
  <2>7. \/ r_last_tr'[p] = r_last_tr[p]
        \/ p = e.op /\ r_last_tr'[p].answer = "none"
    BY <1>0, <1>5, <2>2, <2>4, RequestEffects DEF HandleEvent
  <2>8. CASE p # e.op
    <3>1. e.op \in registers => e.op[1] # d
      BY <2>3, <2>4, <2>5, <2>8
    <3>2. state[d] = "Ok"
      BY <1>0, <1>5, <1>c, <2>3, <3>1
         DEF HandleEvent, RegistrationSuccess, RegistrationFailure, Challenged, report, TypeOK
    <3>3. Accounted(p)
      BY <1>a, <2>4, <3>2
    <3>4. (\E i \in 1 .. Len(events) : events[i].op = p) => \E i \in 1 .. Len(events') : events'[i].op = p
      BY <2>2, <2>6, <2>8
    <3>5. p \in pending_auth => p \in pending_auth'
      BY <1>5, <2>8 DEF HandleEvent, RegistrationSuccess, RegistrationFailure, Challenged
    <3>6. r_retry'[p] = r_retry[p]
      <4>1. Sign(e.op) \/ UNCHANGED r_retry
        BY <1>5 DEF HandleEvent, RegistrationSuccess, RegistrationFailure, Challenged
      <4>2. QED BY <1>0, <2>3, <2>4, <2>8, <4>1, SignTypes
    <3>7. QED BY <2>4, <2>7, <2>8, <3>3, <3>4, <3>5, <3>6 DEF Accounted
  <2>9. CASE p = e.op
    <3>0. e.op[1] = d
      BY <2>4, <2>9
    <3>1. CASE \E i \in 1 .. Len(events') : events'[i].op = p
      BY <2>4, <3>1 DEF Accounted
    <3>2. CASE ~\E i \in 1 .. Len(events') : events'[i].op = p
      <4>1. 1 \in 1 .. Len(events) /\ \A i \in 1 .. Len(events) : i # 1 => events[i].op # p
        BY <2>2, <2>6, <3>2
      <4>2. LastOf(p, 1)
        BY <2>2, <2>9, <4>1 DEF LastOf
      <4>3. ~InFlight(p) => r_last_tr[p].answer = Remembered(e.answer)
        BY <1>0, <2>2, <2>4, <4>1, <4>2 DEF EventsTellLast
      <4>4. CASE RegistrationSuccess(e)
        BY <2>4, <2>7, <4>3, <4>4 DEF RegistrationSuccess, InFlight, Accounted, Remembered
      <4>5. CASE RegistrationFailure(e)
        <5>1. SentAgain(e)
          BY <1>0, <1>c, <3>0, <4>5 DEF RegistrationFailure, Reported, TypeOK
        <5>2. r_last_tr'[p].answer = "none"
          BY <1>0, <2>2, <2>9, <4>5, <5>1, SendAgainTypes DEF RegistrationFailure
        <5>3. QED BY <2>4, <5>2 DEF Accounted
      <4>6. CASE Challenged(e)
        <5>0. CASE ~HasRealm(e)
          <6>1. e.answer = "bare" /\ r_last_tr' = r_last_tr
            BY <4>6, <5>0 DEF Challenged, HasRealm
          <6>2. r_last_tr[p].answer \in {"bare", "none"}
            BY <4>3, <6>1 DEF InFlight, Remembered
          <6>3. QED BY <2>4, <6>1, <6>2 DEF Accounted
        <5>1. CASE HasRealm(e) /\ MayTry(Account(e.op))
          <6>1. Sign(p)
            BY <2>9, <4>6, <5>1 DEF Challenged
          <6>2. r_last_tr'[p].answer = "none" \/ r_retry'[p] = MaxRetry
            BY <1>0, <2>4, <6>1, SignTypes
          <6>3. QED BY <2>4, <6>2 DEF Accounted
        <5>2. CASE HasRealm(e) /\ ~MayTry(Account(e.op))
          BY <2>4, <2>9, <4>6, <5>2 DEF Challenged, Accounted
        <5>3. QED BY <5>0, <5>1, <5>2
      <4>7. QED BY <1>5, <2>4, <2>9, <4>4, <4>5, <4>6 DEF HandleEvent
    <3>3. QED BY <3>1, <3>2
  <2>10. QED BY <2>8, <2>9
<1>6. ASSUME NEW o \in Ops, Refresh(o) PROVE Accounted(Current(d))'
  <2>1. /\ UNCHANGED <<op, state, registers, j_reg, events, pending_auth, r_retry>>
        /\ Transmit(o, "register", FALSE)
    BY <1>6 DEF Refresh, config, report, sal
  <2>2. /\ r_last_tr'[o].answer = "none" /\ \A p \in Ops \ {o} : r_last_tr'[p] = r_last_tr[p]
    BY <1>0, <2>1, TransmitTypes
  <2>3. Current(d)' = Current(d) /\ Shown(d) /\ Current(d) \in Ops
    BY <1>0, <1>c, <2>1 DEF Current, TypeOK
  <2>4. Accounted(Current(d))
    BY <1>a, <2>3
  <2>5. QED BY <2>1, <2>2, <2>3, <2>4 DEF Accounted
<1>7. ASSUME NEW o \in Ops, Answer(o) PROVE Accounted(Current(d))'
  <2>1. /\ UNCHANGED <<config, report, sal, j_reg>>
        /\ \E x \in Events : x.op = o /\ events' = Append(events, x)
        /\ \A p \in Ops \ {o} : r_last_tr'[p] = r_last_tr[p] /\ r_retry'[p] = r_retry[p]
    BY <1>0, <1>7, AnswerTypes
  <2>2. PICK x \in Events : x.op = o /\ events' = Append(events, x)
    BY <2>1
  <2>3. /\ Len(events) \in Nat /\ Len(events') = Len(events) + 1
        /\ \A i \in 1 .. Len(events) : events'[i] = events[i]
        /\ events'[Len(events) + 1] = x
    BY <1>0, <2>2, AddLast DEF TypeOK
  <2>4. Current(d)' = Current(d) /\ Shown(d) /\ Current(d) \in Ops
    BY <1>0, <1>c, <2>1 DEF Current, TypeOK, config, report, sal
  <2>5. CASE Current(d) = o
    <3>1. Len(events) + 1 \in 1 .. Len(events')
      BY <2>3
    <3>2. QED BY <2>2, <2>3, <2>4, <2>5, <3>1 DEF Accounted
  <2>6. CASE Current(d) # o
    <3>1. Accounted(Current(d))
      BY <1>a, <2>4
    <3>2. \A i \in 1 .. Len(events) : i \in 1 .. Len(events') /\ events'[i] = events[i]
      BY <2>3
    <3>3. UNCHANGED pending_auth
      BY <2>1 DEF sal
    <3>4. QED BY <2>1, <2>4, <2>6, <3>1, <3>2, <3>3 DEF Accounted
  <2>7. QED BY <2>5, <2>6
<1>8. CASE UNCHANGED <<op, state, registers, pending_auth, exosip>>
  <2>1. Current(d)' = Current(d) /\ Shown(d)
    BY <1>c, <1>8 DEF Current, exosip
  <2>2. Accounted(Current(d))
    BY <1>a, <2>1
  <2>3. QED BY <1>8, <2>1, <2>2 DEF Accounted, exosip
<1>9. ASSUME NEW c \in Configs, AddProxyConfig(c) \/ Done(c) \/ CommitOnly(c)
      PROVE UNCHANGED <<op, state, registers, pending_auth, exosip>>
  BY <1>9 DEF AddProxyConfig, Done, CommitOnly, report, sal
<1>10. ASSUME NEW up \in BOOLEAN, SetNetworkReachable(up)
       PROVE UNCHANGED <<op, state, registers, pending_auth, exosip>>
  BY <1>10 DEF SetNetworkReachable, sal
<1>11. ASSUME NEW a \in Accounts, RemoveAuthInfo(a)
       PROVE UNCHANGED <<op, state, registers, pending_auth, exosip>>
  BY <1>11 DEF RemoveAuthInfo, config, report, sal
<1>12. QED BY <1>1, <1>2, <1>3, <1>4, <1>5, <1>6, <1>7, <1>8, <1>9, <1>10, <1>11 DEF Next

(* The failure of a refresh, or an answer that comes late or out of turn,  *)
(* leaves no config shown as Ok whose last request was refused, but one    *)
(* that waits for a password, one whose attempts eXosip has used up, and   *)
(* one refused by a challenge without a realm, of which nobody is told.    *)
THEOREM ShownStateIsCurrent == Spec => []OkIsCurrent
<1>1. Init => EventsTellLast /\ OkIsCurrent
  BY DEF Init, EventsTellLast, OkIsCurrent
<1>2. RegistrationInv /\ EventsTellLast /\ [Next]_vars => EventsTellLast'
  <2>1. EventsTellLast /\ UNCHANGED vars => EventsTellLast'
    BY DEF vars, exosip, EventsTellLast, LastOf, InFlight
  <2>2. QED BY <2>1, KeepsTelling
<1>3. RegistrationInv /\ EventsTellLast /\ OkIsCurrent /\ [Next]_vars => OkIsCurrent'
  <2>1. OkIsCurrent /\ UNCHANGED vars => OkIsCurrent'
    BY DEF vars, config, report, sal, exosip, OkIsCurrent, Current
  <2>2. QED BY <2>1, KeepsShown DEF ShownInv
<1>4. QED BY <1>1, <1>2, <1>3, RegistrationInvariant, PTL DEF Spec

-----------------------------------------------------------------------------
(* What the application is told, and how often a password is tried.        *)
Told(c) ==
  \/ state'[c] # state[c] /\ state'[c] \in {"Ok", "Cleared", "Failed"}
  \/ c \in registered' \ registered

(* The result of a registration is shown, and a config becomes registered, *)
(* only while the config takes an event of the op that it holds: what an   *)
(* op of a former commit still receives changes nothing, though its events *)
(* are on their way when the config gets its next op.                      *)
LateAnswersAreIgnored ==
  [][\A c \in Configs : Told(c) => events # <<>> /\ Head(events).op = Current(c)]_vars

SignedNow(o) == r_last_tr'[o] # r_last_tr[o] /\ r_last_tr'[o].signed

(* Until passwords are changed, a use of one is never forgotten, and a     *)
(* request is signed with a password that was never accepted only while it *)
(* was tried less than MaxRetry times, by all ops of the account together, *)
(* and the try is counted.                                                 *)
TriesAreCounted ==
  [][\A a \in Accounts : changes' = changes =>
       /\ usecount'[a] >= usecount[a]
       /\ \A o \in Ops : SignedNow(o) /\ Account(o) = a =>
            a \in works \/ (usecount[a] < MaxRetry /\ usecount'[a] = usecount[a] + 1)]_vars

LEMMA ToldByEvents ==
  ASSUME RegistrationInv, HandleEvent, NEW c \in Configs, Told(c)
  PROVE  events # <<>> /\ Head(events).op = Current(c)
<1> DEFINE e == Head(events)
<1>0. TypeOK /\ OpsHaveConfigs
  BY DEF RegistrationInv
<1>1. events # <<>> /\ e \in Events
  BY <1>0, TakeFirst DEF HandleEvent, TypeOK
<1>2. e.op \in Ops /\ e.op[1] \in Configs
  BY <1>1, OpPairs DEF Events
<1>3. e.op \in registers
  <2>1. SUFFICES ASSUME UNCHANGED report PROVE FALSE
    BY DEF HandleEvent
  <2>2. QED BY <2>1 DEF Told, report
<1>4. e.op = Current(e.op[1])
  BY <1>0, <1>2, <1>3, OpPairs DEF OpsHaveConfigs, Live, Current
<1>5. /\ \A d \in Configs \ {e.op[1]} : state'[d] = state[d]
      /\ registered' \subseteq registered \cup {e.op[1]}
  BY <1>0, <1>2 DEF HandleEvent, RegistrationSuccess, RegistrationFailure, Challenged,
                    TypeOK, report
<1>6. c = e.op[1]
  BY <1>5 DEF Told
<1>7. QED BY <1>1, <1>4, <1>6

LEMMA ToldStep ==
  ASSUME RegistrationInv, Next, NEW c \in Configs, Told(c)
  PROVE  events # <<>> /\ Head(events).op = Current(c)
<1>0. TypeOK
  BY DEF RegistrationInv
<1>1. CASE HandleEvent
  BY <1>1, ToldByEvents
<1>2. ASSUME NEW d \in Configs, Edit(d) \/ RemoveProxyConfig(d) PROVE FALSE
  <2>1. registered' \subseteq registered /\ state' = state
    BY <1>2, UnregisterTypes DEF Edit, RemoveProxyConfig
  <2>2. QED BY <2>1 DEF Told
<1>3. ASSUME NEW d \in Configs, Register(d) PROVE FALSE
  <2>1. state' = [state EXCEPT ![d] = "Progress"] /\ registered' = registered
    BY <1>3 DEF Register
  <2>2. QED BY <1>0, <2>1 DEF Told, TypeOK
<1>4. ASSUME NEW d \in Configs, Destroy(d) PROVE FALSE
  <2>1. state' = [state EXCEPT ![d] = "None"] /\ registered' = registered \ {d}
    BY <1>4 DEF Destroy
  <2>2. QED BY <1>0, <2>1 DEF Told, TypeOK
<1>5. ASSUME NEW up \in BOOLEAN, SetNetworkReachable(up) PROVE FALSE
  BY <1>5 DEF SetNetworkReachable, Told
<1>6. CASE UNCHANGED report
  BY <1>6 DEF Told, report
<1>7. ASSUME NEW d \in Configs, AddProxyConfig(d) \/ Done(d) \/ CommitOnly(d)
      PROVE  UNCHANGED report
  BY <1>7 DEF AddProxyConfig, Done, CommitOnly
<1>8. ASSUME NEW a \in Accounts, AddAuthInfo(a) \/ RemoveAuthInfo(a) PROVE UNCHANGED report
  BY <1>8 DEF AddAuthInfo, RemoveAuthInfo
<1>9. ASSUME NEW o \in Ops, Refresh(o) \/ Answer(o) PROVE UNCHANGED report
  BY <1>9 DEF Refresh, Answer
<1>10. QED BY <1>1, <1>2, <1>3, <1>4, <1>5, <1>6, <1>7, <1>8, <1>9 DEF Next

(* Answers to the op of a former commit tell the application nothing.      *)
THEOREM OldOpsTellNothing == Spec => LateAnswersAreIgnored
<1>1. RegistrationInv /\ [Next]_vars =>
        [\A c \in Configs : Told(c) => events # <<>> /\ Head(events).op = Current(c)]_vars
  BY ToldStep
<1>2. QED BY <1>1, RegistrationInvariant, PTL DEF Spec, LateAnswersAreIgnored

(* Requests that are not signed.                                           *)
LEMMA SentUnsigned ==
  ASSUME TypeOK, NEW o \in Ops, NEW k \in {"register", "unregister"}, Transmit(o, k, FALSE)
  PROVE  \A p \in Ops : ~SignedNow(p)
<1>1. \A p \in Ops : r_last_tr'[p] = r_last_tr[p] \/ ~r_last_tr'[p].signed
  BY DEF Transmit, TypeOK
<1>2. QED BY <1>1 DEF SignedNow

LEMMA UsesGrow ==
  ASSUME NEW uses \in [Accounts -> 0 .. MaxRetry], NEW a \in Accounts, NEW b \in Accounts
  PROVE  /\ Used(uses, a)[b] >= uses[b]
         /\ uses[a] < MaxRetry => Used(uses, a)[a] = uses[a] + 1
<1>1. uses[a] \in Nat /\ uses[b] \in Nat
  BY Kinds
<1>2. CASE uses[a] < MaxRetry
  <2>1. Used(uses, a) = [uses EXCEPT ![a] = uses[a] + 1]
    BY <1>2 DEF Used
  <2>2. QED BY <1>1, <2>1
<1>3. CASE ~(uses[a] < MaxRetry)
  <2>1. Used(uses, a) = uses
    BY <1>3 DEF Used
  <2>2. QED BY <1>1, <1>3, <2>1
<1>4. QED BY <1>2, <1>3

LEMMA CountsTries ==
  ASSUME RegistrationInv, Next, NEW a \in Accounts, changes' = changes
  PROVE  /\ usecount'[a] >= usecount[a]
         /\ \A o \in Ops : SignedNow(o) /\ Account(o) = a =>
              a \in works \/ (usecount[a] < MaxRetry /\ usecount'[a] = usecount[a] + 1)
<1> DEFINE Counted ==
      /\ usecount'[a] >= usecount[a]
      /\ \A o \in Ops : SignedNow(o) /\ Account(o) = a =>
           a \in works \/ (usecount[a] < MaxRetry /\ usecount'[a] = usecount[a] + 1)
<1> SUFFICES Counted
  OBVIOUS
<1>0. TypeOK
  BY DEF RegistrationInv
<1>a. usecount[a] \in Nat
  BY <1>0, Kinds DEF TypeOK
<1>b. CASE UNCHANGED usecount /\ \A o \in Ops : ~SignedNow(o)
  BY <1>a, <1>b
<1>c. UNCHANGED r_last_tr => \A o \in Ops : ~SignedNow(o)
  BY DEF SignedNow
<1>1. ASSUME NEW c \in Configs, Edit(c) \/ RemoveProxyConfig(c) PROVE Counted
  <2>1. Unregister(c) /\ UNCHANGED usecount
    BY <1>1 DEF Edit, RemoveProxyConfig, auth
  <2>2. \/ UNCHANGED r_last_tr
        \/ Current(c) \in Ops /\ Transmit(Current(c), "unregister", FALSE)
    BY <1>0, <2>1 DEF Unregister, TypeOK
  <2>3. QED BY <1>0, <1>b, <1>c, <2>1, <2>2, SentUnsigned
<1>2. ASSUME NEW c \in Configs, Register(c) PROVE Counted
  <2>1. \A p \in Ops : r_last_tr'[p] = r_last_tr[p] \/ ~r_last_tr'[p].signed
    BY <1>2 DEF Register, Initial, Over
  <2>2. UNCHANGED usecount
    BY <1>2 DEF Register, auth
  <2>3. QED BY <1>b, <2>1, <2>2 DEF SignedNow
<1>3. CASE HandleEvent
  <2> DEFINE e == Head(events)
  <2>0. e \in Events
    BY <1>0, <1>3, TakeFirst DEF HandleEvent, TypeOK
  <2>1. e \in Events /\ e.op \in Ops
    BY <2>0 DEF Events
  <2>2. CASE SendAgain(e) /\ UNCHANGED usecount
    <3>1. UNCHANGED r_last_tr \/ Transmit(e.op, "register", FALSE)
      BY <2>2 DEF SendAgain
    <3>2. QED BY <1>0, <1>b, <1>c, <2>1, <2>2, <3>1, SentUnsigned
  <2>3. CASE UNCHANGED <<usecount, r_last_tr>>
    BY <1>b, <1>c, <2>3
  <2>4. CASE /\ MayTry(Account(e.op)) /\ Sign(e.op)
             /\ usecount' = Used(usecount, Account(e.op))
    <3>1. \A o \in Ops \ {e.op} : ~SignedNow(o)
      BY <2>1, <2>4, SignTypes DEF SignedNow
    <3>2. /\ usecount'[a] >= usecount[a]
          /\ Account(e.op) = a /\ usecount[a] < MaxRetry => usecount'[a] = usecount[a] + 1
      BY <1>0, <2>1, <2>4, Kinds, UsesGrow DEF TypeOK
    <3>3. QED BY <2>4, <3>1, <3>2 DEF MayTry
  <2>5. QED BY <1>3, <2>2, <2>3, <2>4
            DEF HandleEvent, RegistrationSuccess, RegistrationFailure, Challenged
<1>4. ASSUME NEW b \in Accounts, AddAuthInfo(b) \/ RemoveAuthInfo(b) PROVE FALSE
  BY <1>0, <1>4 DEF AddAuthInfo, RemoveAuthInfo, TypeOK
<1>5. ASSUME NEW o \in Ops, Refresh(o) PROVE Counted
  <2>1. Transmit(o, "register", FALSE) /\ UNCHANGED usecount
    BY <1>5 DEF Refresh, auth
  <2>2. QED BY <1>0, <1>b, <2>1, SentUnsigned
<1>6. ASSUME NEW o \in Ops, Answer(o) PROVE Counted
  <2>1. \A p \in Ops : r_last_tr'[p] = r_last_tr[p] \/ ~r_last_tr'[p].signed
    BY <1>0, <1>6 DEF Answer, Over, TypeOK
  <2>2. UNCHANGED usecount
    BY <1>6 DEF Answer, auth
  <2>3. QED BY <1>b, <2>1, <2>2 DEF SignedNow
<1>7. ASSUME NEW c \in Configs, AddProxyConfig(c) \/ Done(c) \/ CommitOnly(c) \/ Destroy(c)
      PROVE Counted
  <2>1. UNCHANGED <<usecount, r_last_tr>>
    BY <1>7 DEF AddProxyConfig, Done, CommitOnly, Destroy, auth, exosip
  <2>2. QED BY <1>b, <1>c, <2>1
<1>8. ASSUME NEW up \in BOOLEAN, SetNetworkReachable(up) PROVE Counted
  <2>1. UNCHANGED <<usecount, r_last_tr>>
    BY <1>8 DEF SetNetworkReachable, auth, exosip
  <2>2. QED BY <1>b, <1>c, <2>1
<1>9. QED BY <1>1, <1>2, <1>3, <1>4, <1>5, <1>6, <1>7, <1>8 DEF Next

(* A wrong password is tried MaxRetry times at most (auth_requested).      *)
THEOREM FewTriesOfAPassword == Spec => TriesAreCounted
<1>1. RegistrationInv /\ [Next]_vars =>
        [\A a \in Accounts : changes' = changes =>
           /\ usecount'[a] >= usecount[a]
           /\ \A o \in Ops : SignedNow(o) /\ Account(o) = a =>
                a \in works \/ (usecount[a] < MaxRetry /\ usecount'[a] = usecount[a] + 1)]_vars
  BY CountsTries
<1>2. QED BY <1>1, RegistrationInvariant, PTL DEF Spec, TriesAreCounted

=============================================================================
