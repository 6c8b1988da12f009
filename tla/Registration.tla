---------------------------- MODULE Registration ----------------------------
(***************************************************************************)
(* Registration at SIP proxies: proxy.c, authentication.c, the REGISTER    *)
(* part of sal_eXosip2.c with its callbacks, and of eXosip what keeps a    *)
(* registration alive.                                                     *)
(*                                                                         *)
(* The main thread edits, adds and removes proxy configs and passwords and *)
(* iterates the core, which commits the configs and handles the events.    *)
(* eXosip's thread runs the REGISTER transactions, of which each ends with *)
(* an answer or a time-out and leaves an event.                            *)
(*                                                                         *)
(* Each commit gives a config a new op: <<c, n>> is the n-th op of c, and  *)
(* stands for its rid in eXosip as well.  An op outlives its release in    *)
(* eXosip, which is not told, and may outlive it in pending_auths.         *)
(***************************************************************************)
EXTENDS Naturals, Sequences

CONSTANTS
  Configs,      (* proxy configs; the application makes a new one each time *)
  Accounts,     (* an identity at a registrar, which has one password       *)
  AccountOf,    (* config -> its account                                    *)
  RegisterOnlyWhenUp,   (* sip_conf.register_only_when_network_is_up        *)
  MaxRetry,     (* 3: of eXosip for a registration, and of callbacks.c      *)
  MaxOps,       (* bound: commits of all configs                            *)
  MaxEvents,    (* bound: events between two iterations                     *)
  MaxChanges,   (* bound: passwords entered and removed                     *)
  MaxEntries    (* bound: entries of an op in pending_auths                 *)

ASSUME RegistrationAssumption ==
  /\ AccountOf \in [Configs -> Accounts]
  /\ RegisterOnlyWhenUp \in BOOLEAN
  /\ {MaxRetry, MaxOps, MaxEvents, MaxChanges, MaxEntries} \subseteq Nat

Ops == Configs \X (1 .. MaxOps)
Account(o) == AccountOf[o[1]]

VARIABLES
  phase,        (* config -> new, listed in sip_conf.proxies, deleted       *)
                (* (in deleted_proxies), gone                               *)
  editing,      (* the configs between edit and done                        *)
  enabled,      (* the configs with reg_sendregister                        *)
  commit,       (* the configs with commit                                  *)
  registered,   (* the configs with registered                              *)
  state,        (* config -> the state the application was told             *)
  op,           (* config -> the number of its op, 0 when it has none       *)
  network_reachable,
  auth_info,    (* the accounts whose password is known                     *)
  works,        (* those whose password was accepted                        *)
  usecount,     (* account -> how often its password was used, up to MaxRetry*)
  registers,    (* sal->registers                                           *)
  pending_auth, (* the ops that hold a challenge                            *)
  pending_auths,(* op -> how often it is in sal->pending_auths              *)
  j_reg,        (* eXosip's registrations                                   *)
  r_reg_period, (* those that are to be kept alive                          *)
  r_retry,      (* op -> times its challenges were answered                 *)
  r_last_tr,    (* op -> the last transaction; of one that is over only     *)
                (* its answer                                               *)
  events,       (* eXosip's events that were not handled                    *)
  ops, changes, (* counters of the bounds                                   *)
  undefined     (* a freed op, or a challenge that is not there, was read   *)

config == <<phase, editing, enabled, commit, op, ops, network_reachable>>
report == <<registered, state>>
auth   == <<auth_info, works, usecount, changes>>
sal    == <<registers, pending_auth, pending_auths>>
exosip == <<j_reg, r_reg_period, r_retry, r_last_tr, events>>
vars   == <<config, report, auth, sal, exosip, undefined>>

Requests == [kind : {"register", "unregister"}, signed : BOOLEAN,
             answer : {"none", "ok", "refused", "bare"}]
Over(a)   == [kind |-> "unregister", signed |-> FALSE, answer |-> a]
Events == [op : Ops, kind : {"register", "unregister"}, signed : BOOLEAN,
           answer : {"ok", "challenge", "bare", "refused"}, moved : BOOLEAN]

Initial   == [kind |-> "register", signed |-> FALSE, answer |-> "none"]

InFlight(o) == r_last_tr[o].answer = "none"
Current(c)  == <<c, op[c]>>
Live(o)     == o[2] = op[o[1]] /\ phase[o[1]] \in {"listed", "deleted"}

-----------------------------------------------------------------------------
(* Parts of several actions.                                               *)

(* eXosip_register_send_register: one transaction at a time; a request     *)
(* that comes too early is thrown away.                                    *)
Transmit(o, k, s) ==
  r_last_tr' = IF InFlight(o) THEN r_last_tr
               ELSE [r_last_tr EXCEPT
                       ![o] = [kind |-> k, signed |-> s, answer |-> "none"]]

(* sal_unregister, from linphone_proxy_config_edit.                        *)
Unregister(c) ==
  LET o == Current(c) IN
  IF c \in enabled \cap registered
  THEN /\ registered' = registered \ {c}
       /\ IF o \in j_reg
          THEN r_reg_period' = r_reg_period \ {o} /\ Transmit(o, "unregister", FALSE)
          ELSE UNCHANGED <<r_reg_period, r_last_tr>>
  ELSE UNCHANGED <<registered, r_reg_period, r_last_tr>>

(* sal_op_release takes the op out of sal->registers, and one entry of it  *)
(* out of the list of pending authentications.                             *)
StillFound(o) == registers
Without(o) == registers \ {o}

Forget(o) ==
  /\ pending_auth' = pending_auth \ {o}
  /\ pending_auths' = IF o \in pending_auth
                      THEN [pending_auths EXCEPT ![o] = @ - 1] ELSE pending_auths

(* eXosip_retry_register_with_auth, from sal_op_authenticate.  The request *)
(* is signed as the last answer asks for, which a bare one does not.       *)
Sign(o) ==
  IF o \in j_reg /\ r_retry[o] < MaxRetry
  THEN /\ r_retry' = [r_retry EXCEPT ![o] = @ + 1]
       /\ Transmit(o, IF o \in r_reg_period THEN "register" ELSE "unregister",
                   r_last_tr[o].answer # "bare")
  ELSE UNCHANGED <<r_retry, r_last_tr>>

Used(uses, a) == [uses EXCEPT ![a] = IF @ < MaxRetry THEN @ + 1 ELSE @]

-----------------------------------------------------------------------------
(* The application.                                                        *)

(* linphone_core_add_proxy_config; the application has an account in the   *)
(* list once.                                                              *)
AddProxyConfig(c) ==
  /\ phase[c] = "new"
  /\ \A d \in Configs : phase[d] = "listed" => AccountOf[d] # AccountOf[c]
  /\ phase' = [phase EXCEPT ![c] = "listed"]
  /\ enabled' \in {enabled, enabled \cup {c}}
  /\ commit' = commit \cup {c}
  /\ UNCHANGED <<editing, op, ops, network_reachable, report, auth, sal, exosip, undefined>>

Edit(c) ==
  /\ phase[c] = "listed" /\ c \notin editing
  /\ editing' = editing \cup {c}
  /\ Unregister(c)
  /\ UNCHANGED <<phase, enabled, commit, op, ops, network_reachable, state, auth, sal,
                 j_reg, r_retry, events, undefined>>

(* linphone_proxy_config_enable_register and linphone_proxy_config_done.   *)
Done(c) ==
  /\ c \in editing
  /\ editing' = editing \ {c}
  /\ enabled' \in {enabled \ {c}, enabled \cup {c}}
  /\ commit' = commit \cup {c}
  /\ UNCHANGED <<phase, op, ops, network_reachable, report, auth, sal, exosip, undefined>>

RemoveProxyConfig(c) ==
  /\ phase[c] = "listed"
  /\ phase' = [phase EXCEPT ![c] = "deleted"]
  /\ editing' = editing \ {c}
  /\ Unregister(c)
  /\ UNCHANGED <<enabled, commit, op, ops, network_reachable, state, auth, sal,
                 j_reg, r_retry, events, undefined>>

(* set_network_reachable: the configs it is about.                         *)
OnceRegistering == {c \in enabled : phase[c] = "listed" /\ op[c] > 0}
Registering == {c \in enabled : phase[c] = "listed"}

SetNetworkReachable(up) ==
  /\ network_reachable' = up
  /\ commit' = IF up THEN commit \cup Registering ELSE commit
  /\ registered' = IF up THEN registered ELSE registered \ Registering
  /\ UNCHANGED <<phase, editing, enabled, op, ops, state, auth, sal, exosip, undefined>>

(* linphone_core_add_auth_info walks pending_auths in place.  It goes on   *)
(* until an op whose password is known, whose entry it frees: the next one *)
(* is read from there, where ms_list_remove_link has left the end of the   *)
(* list.  An entry left behind by its op is undefined to read.  The order  *)
(* of the list is left open.                                               *)
AddAuthInfo(a) ==
  LET known == auth_info \cup {a}
      fresh == [usecount EXCEPT ![a] = 0]
      stops == {o \in Ops : /\ pending_auths[o] > 0
                            /\ \/ ~Live(o) \/ o \notin pending_auth
                               \/ Account(o) \in known}
  IN
  /\ changes < MaxChanges /\ changes' = changes + 1
  /\ auth_info' = known /\ works' = works \ {a}
  /\ \/ /\ stops = {}
        /\ usecount' = fresh
        /\ UNCHANGED <<pending_auth, pending_auths, r_retry, r_last_tr, undefined>>
     \/ \E o \in stops :
          /\ Live(o) /\ o \in pending_auth
          /\ Forget(o) /\ Sign(o)
          /\ usecount' = Used(fresh, Account(o))
          /\ undefined' \in BOOLEAN
     \/ /\ \E o \in stops : ~Live(o) \/ o \notin pending_auth
        /\ usecount' = fresh
        /\ undefined' = TRUE
        /\ UNCHANGED <<pending_auth, pending_auths, r_retry, r_last_tr>>
  /\ UNCHANGED <<config, report, registers, j_reg, r_reg_period, events>>

RemoveAuthInfo(a) ==
  /\ a \in auth_info
  /\ changes < MaxChanges /\ changes' = changes + 1
  /\ auth_info' = auth_info \ {a} /\ works' = works \ {a}
  /\ usecount' = [usecount EXCEPT ![a] = 0]
  /\ UNCHANGED <<config, report, sal, exosip, undefined>>

-----------------------------------------------------------------------------
(* linphone_core_iterate: proxy_update, and sal_iterate with its events.   *)

(* linphone_proxy_config_update of a config that is not to register now.   *)
CommitOnly(c) ==
  /\ phase[c] = "listed" /\ c \in commit
  /\ c \notin enabled \/ (RegisterOnlyWhenUp /\ ~network_reachable)
  /\ commit' = commit \ {c}
  /\ UNCHANGED <<phase, editing, enabled, op, ops, network_reachable, report, auth, sal,
                 exosip, undefined>>

(* linphone_proxy_config_update, linphone_proxy_config_register: the old   *)
(* op is released; eXosip drops the former registration of the account.    *)
Register(c) ==
  LET o == <<c, op[c] + 1>> IN
  /\ phase[c] = "listed" /\ c \in commit \cap enabled
  /\ RegisterOnlyWhenUp => network_reachable
  /\ ops < MaxOps /\ ops' = ops + 1
  /\ commit' = commit \ {c}
  /\ op' = [op EXCEPT ![c] = op[c] + 1]
  /\ state' = [state EXCEPT ![c] = "Progress"]
  /\ registers' = Without(Current(c)) \cup {o}
  /\ Forget(Current(c))
  /\ j_reg' = {p \in j_reg : Account(p) # Account(o)} \cup {o}
  /\ r_reg_period' = {p \in r_reg_period : Account(p) # Account(o)} \cup {o}
  /\ r_retry' = [p \in Ops |-> IF p \in j_reg' THEN r_retry[p] ELSE 0]
  /\ r_last_tr' = [p \in Ops |-> IF p = o THEN Initial
                                 ELSE IF p \in j_reg' THEN r_last_tr[p] ELSE Over("ok")]
  /\ UNCHANGED <<phase, editing, enabled, network_reachable, registered, auth,
                 events, undefined>>

(* linphone_proxy_config_destroy, more than 5 s after the removal; what    *)
(* was said of the config goes with it.                                    *)
Destroy(c) ==
  /\ phase[c] = "deleted"
  /\ phase' = [phase EXCEPT ![c] = "gone"]
  /\ enabled' = enabled \ {c} /\ commit' = commit \ {c}
  /\ registered' = registered \ {c} /\ state' = [state EXCEPT ![c] = "None"]
  /\ registers' = Without(Current(c))
  /\ Forget(Current(c))
  /\ UNCHANGED <<editing, op, ops, network_reachable, auth, exosip, undefined>>

(* register_again_with_updated_contact: makes the registration one that is *)
(* kept alive, and returns TRUE unless another request is under way.       *)
SendAgain(e) ==
  IF e.moved /\ e.op \in j_reg
  THEN r_reg_period' = r_reg_period \cup {e.op} /\ Transmit(e.op, "register", FALSE)
  ELSE UNCHANGED <<r_reg_period, r_last_tr>>

SentAgain(e) == e.moved /\ e.op \in j_reg /\ ~InFlight(e.op)

RegistrationSuccess(e) ==
  LET c == e.op[1] IN
  /\ e.answer = "ok"
  /\ works' = IF e.signed /\ AccountOf[c] \in auth_info
              THEN works \cup {AccountOf[c]} ELSE works
  /\ SendAgain(e)
  /\ IF SentAgain(e)
     THEN UNCHANGED report
     ELSE /\ registered' = IF e.kind = "register" THEN registered \cup {c}
                           ELSE registered \ {c}
          /\ state' = [state EXCEPT
                         ![c] = IF e.kind = "register" THEN "Ok" ELSE "Cleared"]
  /\ UNCHANGED <<auth_info, usecount, pending_auth, pending_auths, r_retry>>

(* Whether a failure is told the application: registered stays.            *)
ReportedAtFirst(e) == ~SentAgain(e) /\ e.op[1] \notin registered
Reported(e) == ~SentAgain(e)

RegistrationFailure(e) ==
  /\ e.answer = "refused"
  /\ SendAgain(e)
  /\ state' = IF Reported(e) THEN [state EXCEPT ![e.op[1]] = "Failed"] ELSE state
  /\ UNCHANGED <<registered, auth_info, works, usecount, pending_auth, pending_auths,
                 r_retry>>

(* auth_requested: whether the password is tried.                          *)
AlwaysTry(a) == a \in auth_info
MayTry(a) == a \in auth_info /\ (a \in works \/ usecount[a] < MaxRetry)

(* get_auth_data: a realm in the answer, or in the request it answers.     *)
HasRealm(e) == e.answer = "challenge" \/ e.signed

(* process_authentication: without a realm nothing is done and nobody told;*)
(* otherwise the op is entered in the list though it may be there.         *)
Challenged(e) ==
  LET o == e.op
      a == Account(o) IN
  /\ e.answer \in {"challenge", "bare"}
  /\ \/ /\ ~HasRealm(e)
        /\ UNCHANGED <<pending_auth, pending_auths, state, usecount, r_retry, r_last_tr>>
     \/ /\ HasRealm(e) /\ MayTry(a)
        /\ pending_auth' = pending_auth \ {o}
        /\ usecount' = Used(usecount, a)
        /\ Sign(o)
        /\ UNCHANGED <<pending_auths, state>>
     \/ /\ HasRealm(e) /\ ~MayTry(a)
        /\ pending_auth' = pending_auth \cup {o}
        /\ pending_auths' = [pending_auths EXCEPT ![o] = @ + 1]
        /\ state' = IF a \in auth_info \ works
                    THEN [state EXCEPT ![o[1]] = "Failed"] ELSE state
        /\ UNCHANGED <<usecount, r_retry, r_last_tr>>
  /\ UNCHANGED <<registered, auth_info, works, r_reg_period>>

(* Events of an unknown registration are thrown away.                      *)
HandleEvent ==
  /\ events # <<>>
  /\ events' = Tail(events)
  /\ LET e == Head(events) IN
     \/ e.op \in registers /\ RegistrationSuccess(e)
     \/ e.op \in registers /\ RegistrationFailure(e)
     \/ e.op \in registers /\ Challenged(e)
     \/ /\ e.op \notin registers
        /\ UNCHANGED <<report, auth_info, works, usecount, pending_auth, pending_auths,
                       r_reg_period, r_retry, r_last_tr>>
  /\ UNCHANGED <<config, changes, registers, j_reg, undefined>>

(* eXosip_automatic_refresh: before the registration expires, or two       *)
(* minutes after a refusal.  A transaction is over after 32 s, and its     *)
(* event is handled by then.                                               *)
Refresh(o) ==
  /\ o \in r_reg_period /\ ~InFlight(o)
  /\ \A i \in 1 .. Len(events) : events[i].op # o
  /\ Transmit(o, "register", FALSE)
  /\ UNCHANGED <<config, report, auth, sal, j_reg, r_reg_period, r_retry, events,
                 undefined>>

(* eXosip's thread: the registrar accepts, challenges with a realm or with *)
(* none, or refuses, or does not answer, which is a refusal too.  An       *)
(* answer is moved when it shows a contact other than the one sent, as     *)
(* often as the registrar likes.                                           *)
Answer(o) ==
  /\ o \in j_reg /\ InFlight(o) /\ Len(events) < MaxEvents
  /\ \E a \in {"ok", "challenge", "bare", "refused"}, m \in BOOLEAN :
       /\ a \in {"challenge", "bare"} => pending_auths[o] < MaxEntries
       /\ m => a = "refused" \/ (a = "ok" /\ r_last_tr[o].kind = "register")
       /\ r_last_tr' = [r_last_tr EXCEPT
                          ![o] = Over(IF a = "challenge" THEN "refused" ELSE a)]
       /\ r_retry' = IF a = "ok" THEN [r_retry EXCEPT ![o] = 0] ELSE r_retry
       /\ events' = Append(events, [op |-> o, kind |-> r_last_tr[o].kind,
                              signed |-> r_last_tr[o].signed, answer |-> a, moved |-> m])
  /\ UNCHANGED <<config, report, auth, sal, j_reg, r_reg_period, undefined>>

-----------------------------------------------------------------------------
Init ==
  /\ phase = [c \in Configs |-> "new"]
  /\ editing = {} /\ enabled = {} /\ commit = {} /\ registered = {}
  /\ state = [c \in Configs |-> "None"]
  /\ op = [c \in Configs |-> 0]
  /\ network_reachable = FALSE
  /\ auth_info = {} /\ works = {}
  /\ usecount = [a \in Accounts |-> 0]
  /\ registers = {} /\ pending_auth = {}
  /\ pending_auths = [o \in Ops |-> 0]
  /\ j_reg = {} /\ r_reg_period = {}
  /\ r_retry = [o \in Ops |-> 0]
  /\ r_last_tr = [o \in Ops |-> Over("ok")]
  /\ events = <<>>
  /\ ops = 0 /\ changes = 0
  /\ undefined = FALSE

Next ==
  /\ ~undefined
  /\ \/ \E c \in Configs :
          \/ AddProxyConfig(c) \/ Edit(c) \/ Done(c) \/ RemoveProxyConfig(c)
          \/ CommitOnly(c) \/ Register(c) \/ Destroy(c)
     \/ \E up \in BOOLEAN : SetNetworkReachable(up)
     \/ \E a \in Accounts : AddAuthInfo(a) \/ RemoveAuthInfo(a)
     \/ HandleEvent
     \/ \E o \in Ops : Refresh(o) \/ Answer(o)

(* The core is iterated for ever, transactions end by a time-out at last,  *)
(* and time passes.                                                        *)
Fairness ==
  /\ WF_vars(~undefined /\ HandleEvent)
  /\ \A o \in Ops : /\ WF_vars(~undefined /\ Answer(o))
                    /\ WF_vars(~undefined /\ Refresh(o))

Spec == Init /\ [][Next]_vars /\ Fairness

-----------------------------------------------------------------------------
(* What makes it correct.                                                  *)

TypeOK ==
  /\ phase \in [Configs -> {"new", "listed", "deleted", "gone"}]
  /\ editing \subseteq Configs /\ enabled \subseteq Configs
  /\ commit \subseteq Configs /\ registered \subseteq Configs
  /\ state \in [Configs -> {"None", "Progress", "Ok", "Cleared", "Failed"}]
  /\ op \in [Configs -> 0 .. MaxOps]
  /\ network_reachable \in BOOLEAN
  /\ auth_info \subseteq Accounts /\ works \subseteq auth_info
  /\ usecount \in [Accounts -> 0 .. MaxRetry]
  /\ registers \subseteq Ops /\ pending_auth \subseteq Ops
  /\ pending_auths \in [Ops -> Nat]
  /\ j_reg \subseteq Ops /\ r_reg_period \subseteq j_reg
  /\ r_retry \in [Ops -> 0 .. MaxRetry]
  /\ r_last_tr \in [Ops -> Requests]
  /\ events \in Seq(Events)
  /\ ops \in 0 .. MaxOps /\ changes \in Nat
  /\ undefined \in BOOLEAN

(* An answer reaches a config through its op only: the ops that the SAL    *)
(* finds are those that a listed or deleted config holds.                  *)
OpsHaveConfigs ==
  \A o \in Ops : o \in registers <=> Live(o)

(* Challenges are held by ops that can be found, and are in the list that  *)
(* a new password is tried on.                                             *)
ChallengesAreListed ==
  \A o \in pending_auth : o \in registers /\ pending_auths[o] > 0

(* eXosip keeps one registration of an account, the last one, and a listed *)
(* config's own.                                                           *)
OneRegistrationEach ==
  /\ \A o, p \in j_reg : Account(o) = Account(p) => o = p
  /\ \A o \in j_reg : 0 < o[2] /\ o[2] = op[o[1]]
  /\ \A c \in Configs : phase[c] = "listed" /\ op[c] > 0 => Current(c) \in j_reg

(* Configs of one account come one after the other, and a config has no op *)
(* and no commit before it is listed.                                      *)
ConfigsTakeTurns ==
  /\ \A c, d \in Configs : /\ AccountOf[c] = AccountOf[d]
                          /\ phase[c] = "listed" /\ phase[d] = "listed" => c = d
  /\ \A c \in Configs : op[c] <= ops /\ (phase[c] = "new" => op[c] = 0)
  /\ \A c \in Configs : c \in editing \cup commit => phase[c] # "new"
  /\ \A c \in editing : phase[c] = "listed"

(* The structure of configs, ops and registrations above, through every    *)
(* edit, removal, answer and password.                                     *)
RegistrationInv ==
  TypeOK /\ OpsHaveConfigs /\ ChallengesAreListed /\ OneRegistrationEach /\ ConfigsTakeTurns

(* While the network is up, a listed config that is to be registered waits *)
(* for its commit or is kept registered by eXosip: neither a commit while  *)
(* the network was down nor an unREGISTER for an edit is the last word.    *)
NoneIsForgotten ==
  \A c \in enabled \ (commit \cup editing) :
    phase[c] = "listed" /\ network_reachable => Current(c) \in r_reg_period

(* The application is told of a registration that is no longer valid: of   *)
(* one it is shown as Ok the last request was accepted, or its outcome is  *)
(* still to come, or it waits for a password, or eXosip answers its        *)
(* challenges no more.  Of a challenge without a realm it is not told.     *)
OkIsCurrent ==
  \A c \in Configs : state[c] = "Ok" /\ Current(c) \in registers \cap j_reg =>
    LET o == Current(c) IN
    \/ r_last_tr[o].answer \in {"ok", "none", "bare"}
    \/ \E i \in 1 .. Len(events) : events[i].op = o
    \/ o \in pending_auth
    \/ r_retry[o] = MaxRetry

(* A registration in progress that no edit has stopped, whose password is  *)
(* known and was not accepted before, comes to an end, for a wrong         *)
(* password as well: it is given up after some attempts.  Only a registrar *)
(* that shows another contact, or challenges without a realm, again and    *)
(* again, holds it up for ever.                                            *)
RegistrationConcludes ==
  \A c \in Configs :
    LET a == AccountOf[c]
        Trying == /\ phase[c] = "listed" /\ state[c] = "Progress"
                  /\ Current(c) \in r_reg_period /\ a \in auth_info \ works
        HeldUp == \E i \in 1 .. Len(events) :
                    /\ events[i].op = Current(c)
                    /\ \/ events[i].moved
                       \/ events[i].answer = "bare" /\ ~events[i].signed
    IN
    []<>(undefined \/ ~Trying \/ HeldUp)

=============================================================================
