------------------------- MODULE CardRelease_proofs -------------------------
(***************************************************************************)
(* Theorems about what the agent does on a page.                           *)
(* CardRelease, for any number of approvals, calls and faults: a card is   *)
(* written only under an approval that was confirmed for the terms of the  *)
(* call, a link the human can sign can be opened by the session, and the   *)
(* human is not asked twice.                                               *)
(* OperateClick, for any nodes, controls, moves of the page and errors: a  *)
(* click that landed is not repeated nor called undispatched, the journal  *)
(* knew of it before, and a dialog keeps its background inert.             *)
(* OAuthSignIn, for any number of calls and turns and any operations: a    *)
(* denial is reported, a success rests on a callback, no call ends on a    *)
(* closed tab or leaves one behind, and one operation runs at a time.      *)
(***************************************************************************)
EXTENDS CardRelease, OperateClick, OAuthSignIn, FiniteSetTheorems, WellFoundedInduction,
        TLAPS

Made(a) == server[a].status # "none"
Settled(a) == server[a].status \in {"approved", "gone"}
Signable == session.active # 0 /\ Pending(session.active)

(* From here on a call follows the approval its session holds. *)
Waiting == {"check", "read", "judge", "verify", "confirm", "confirmed", "lastread", "fill"}

(* The approvals made are the first ones. *)
RowsOK == \E k \in 0..MaxApprovals : \A a \in Approvals : Made(a) <=> a <= k

SessionOK ==
    /\ \A a \in ghost.surfaced : Made(a)
    /\ Signable => session.key
    /\ session.released # 0 => Settled(session.released)

WroteOK ==
    \A w \in ghost.wrote : Settled(w.id) /\ (~NewTerms => server[w.id].terms = w.terms)

(* A link that was shown and can be signed is the one the session resumes. *)
OpenOK ==
    ~ConfirmFaults => /\ ~ghost.again
                      /\ \A a \in ghost.surfaced \ ghost.retired : Pending(a) => a = session.active

CallOK ==
    /\ call.pc = "idle" => call.aid = 0
    /\ call.pc # "idle" => call.terms \in Terms
    /\ call.pc # "refill" /\ call.aid # 0 => Made(call.aid) /\ server[call.aid].terms = call.terms
    /\ call.pc = "config" => call.aid = session.active /\ (call.resumed <=> call.aid # 0)
    /\ call.pc \in Waiting => call.resumed
    /\ call.pc \in Waiting \/ (call.pc = "surface" /\ call.resumed) =>
           call.aid # 0 /\ call.aid = session.active
    /\ call.pc = "create" => call.aid = 0 /\ ~call.resumed /\ ~Signable
    /\ call.pc = "surface" /\ ~call.resumed =>
           call.aid # 0 /\ call.aid # session.active /\ ~Signable
    /\ call.pc = "judge" /\ call.status = "denied" => server[call.aid].status \in {"denied", "gone"}
    /\ call.pc = "lastread" => Expired(call.aid)
    /\ call.pc \in {"confirmed", "fill"} => Settled(call.aid)
    /\ call.pc = "refill" =>
           /\ call.aid # 0 /\ Settled(call.aid)
           /\ ~NewTerms => server[call.aid].terms = call.terms

IInv == TypeOK /\ RowsOK /\ SessionOK /\ WroteOK /\ OpenOK /\ CallOK

-----------------------------------------------------------------------------
(* Types. *)

RowStates == [terms : Terms \cup {NoTerms}, staged : BOOLEAN, by : Nat,
              status : {"none", "pending", "approved", "denied", "gone"}]
SessionStates == [active : 0..MaxApprovals, key : BOOLEAN, released : 0..MaxApprovals,
                  audited : BOOLEAN]
CallStates == [pc : PCs, terms : Terms \cup {NoTerms}, id : 0..MaxApprovals,
               aid : 0..MaxApprovals, resumed : BOOLEAN, until : Nat,
               status : {"none", "pending", "approved", "denied"},
               staged : BOOLEAN, aborted : BOOLEAN]
GhostStates == [wrote : SUBSET [id : Approvals, terms : Terms], again : BOOLEAN,
                surfaced : SUBSET Approvals, retired : SUBSET Approvals,
                recorded : SUBSET Approvals]
UsedStates == [calls : 0..MaxCalls, faults : 0..MaxFaults]

Typed ==
    /\ now \in 0..MaxTime
    /\ server \in [Approvals -> RowStates]
    /\ session \in SessionStates
    /\ call \in CallStates
    /\ ledger \in [Approvals -> 0..2]
    /\ used \in UsedStates
    /\ ghost \in GhostStates

LEMMA Types ==
    TypeOK <=> /\ Typed
               /\ session.active # 0 => session.active \in ghost.surfaced
               /\ session.key => session.active # 0
BY DEF TypeOK, Typed, RowStates, SessionStates, CallStates, GhostStates, UsedStates

LEMMA Zero ==
    ASSUME ReleaseConstants
    PROVE  MaxApprovals \in Nat /\ 0 \in 0..MaxApprovals
BY DEF ReleaseConstants

LEMMA ApprovalId ==
    ASSUME ReleaseConstants, NEW a \in Approvals
    PROVE  a \in 0..MaxApprovals /\ a # 0
BY Zero DEF Approvals

LEMMA IdleCall ==
    ASSUME ReleaseConstants
    PROVE  /\ Idle \in CallStates /\ Idle.pc = "idle" /\ Idle.aid = 0
BY DEF Idle, CallStates, PCs, ReleaseConstants

LEMMA FaultType ==
    ASSUME ReleaseConstants, Typed, Fault
    PROVE  used' \in UsedStates
BY DEF ReleaseConstants, Typed, Fault, UsedStates

-----------------------------------------------------------------------------
(* What no step undoes, and what stays true because of it. *)

RowKept(a) ==
    Made(a) => /\ Made(a)' /\ server'[a].terms = server[a].terms
               /\ Settled(a) => Settled(a)'
               /\ server[a].status \in {"denied", "gone"} => server'[a].status \in {"denied", "gone"}
               /\ ~Pending(a) => ~Pending(a)'
               /\ Expired(a) => Expired(a)'

LEMMA RowsUnchanged ==
    ASSUME UNCHANGED <<now, server>>
    PROVE  \A a \in Approvals : RowKept(a)
BY DEF RowKept, Made, Settled, Pending, Expired

LEMMA Idles ==
    ASSUME ReleaseConstants, Ends
    PROVE  CallOK' /\ call' \in CallStates
BY IdleCall DEF Ends, CallOK, Waiting

(* The session's approval was shown, and rows that were shown are made. *)
LEMMA ActiveMade ==
    ASSUME IInv, session.active # 0
    PROVE  session.active \in Approvals /\ Made(session.active)
BY Types DEF IInv, Typed, GhostStates, SessionOK

LEMMA SignableKept ==
    ASSUME IInv, \A a \in Approvals : RowKept(a), session'.active = session.active, ~Signable
    PROVE  ~Signable'
BY ActiveMade DEF Signable, RowKept, Pending, Expired

LEMMA SessionKept ==
    ASSUME IInv, \A a \in Approvals : RowKept(a), ghost'.surfaced = ghost.surfaced,
           session'.released \in {0, session.released},
           \/ session'.active = 0
           \/ session'.active = session.active /\ (session'.key = session.key \/ ~Signable)
    PROVE  SessionOK'
<1>1. Typed /\ SessionOK /\ ghost.surfaced \subseteq Approvals
  BY Types DEF IInv, Typed, GhostStates
<1>2. (\A a \in ghost.surfaced : Made(a))'
  BY <1>1 DEF SessionOK, RowKept
<1>3. (Signable => session.key)'
 <2>1. CASE session'.active = 0
   BY <2>1 DEF Signable
 <2>2. CASE session'.active = session.active /\ (session'.key = session.key \/ ~Signable)
   BY <1>1, <2>2, SignableKept DEF SessionOK
 <2>3. QED
   BY <2>1, <2>2
<1>4. (session.released # 0 => Settled(session.released))'
 <2>1. CASE session'.released = 0
   BY <2>1
 <2>2. CASE session'.released = session.released /\ session.released # 0
  <3>1. session.released \in Approvals /\ Settled(session.released)
    BY <1>1, <2>2 DEF SessionOK, Typed, SessionStates, Approvals
  <3>2. Settled(session.released)'
    BY <2>2, <3>1 DEF RowKept, Settled, Made
  <3>3. QED
    BY <3>2
 <2>3. QED
   BY <2>1, <2>2
<1>5. QED
  BY <1>2, <1>3, <1>4 DEF SessionOK

LEMMA WroteKept ==
    ASSUME IInv, \A a \in Approvals : RowKept(a), ghost'.wrote = ghost.wrote
    PROVE  WroteOK'
<1> SUFFICES ASSUME NEW w \in ghost.wrote
             PROVE  Settled(w.id)' /\ (~NewTerms => server'[w.id].terms = w.terms)
  BY DEF WroteOK
<1>1. w.id \in Approvals /\ Settled(w.id) /\ (~NewTerms => server[w.id].terms = w.terms)
  BY Types DEF IInv, Typed, GhostStates, WroteOK
<1>2. QED
  BY <1>1 DEF RowKept, Settled, Made

LEMMA OpenKept ==
    ASSUME IInv, \A a \in Approvals : RowKept(a), ghost'.again = ghost.again,
           ghost'.surfaced = ghost.surfaced,
           ghost.retired \subseteq ghost'.retired,
           \/ session'.active = session.active
           \/ ~Signable \/ session.active \in ghost'.retired \/ ConfirmFaults
    PROVE  OpenOK'
<1> SUFFICES ASSUME ~ConfirmFaults, NEW a \in ghost'.surfaced \ ghost'.retired, Pending(a)'
             PROVE  a = session'.active
  BY DEF OpenOK, IInv
<1>1. a \in Approvals /\ Made(a)
  BY Types DEF IInv, Typed, GhostStates, SessionOK
<1>2. Pending(a)
  BY <1>1 DEF RowKept
<1>3. a = session.active /\ a # 0
  BY <1>1, <1>2 DEF IInv, OpenOK, Approvals
<1>4. QED
  BY <1>2, <1>3 DEF Signable

LEMMA RowsKept ==
    ASSUME IInv, \A a \in Approvals : server'[a].status = "none" <=> server[a].status = "none"
    PROVE  RowsOK'
<1>1. PICK k \in 0..MaxApprovals : \A a \in Approvals : Made(a) <=> a <= k
  BY DEF IInv, RowsOK
<1>2. \A a \in Approvals : Made(a)' <=> a <= k
  BY <1>1 DEF Made
<1>3. QED
  BY <1>2 DEF RowsOK

(* A step that leaves the rows and keeps or drops the session's approval. *)
LEMMA CallStep ==
    ASSUME IInv, UNCHANGED <<now, server>>, session' \in SessionStates, call' \in CallStates,
           ledger' \in [Approvals -> 0..2], used' \in UsedStates, ghost' \in GhostStates,
           ghost'.wrote = ghost.wrote, ghost'.surfaced = ghost.surfaced,
           ghost'.again = ghost.again, ghost.retired \subseteq ghost'.retired,
           session'.released \in {0, session.released},
           \/ /\ session'.active = session.active
              /\ session'.key = session.key \/ (session'.key = FALSE /\ ~Signable)
           \/ /\ session'.active = 0 /\ session'.key = FALSE
              /\ ~Signable \/ session.active \in ghost'.retired \/ ConfirmFaults,
           CallOK'
    PROVE  IInv'
<1>1. \A a \in Approvals : RowKept(a)
  BY RowsUnchanged
<1>2. TypeOK'
  BY Types DEF IInv, TypeOK, Typed, RowStates, SessionStates, CallStates, GhostStates, UsedStates
<1>3. SessionOK' /\ WroteOK'
  BY <1>1, SessionKept, WroteKept
<1>4. OpenOK'
  BY <1>1, OpenKept
<1>5. RowsOK'
  BY RowsKept
<1>6. QED
  BY <1>2, <1>3, <1>4, <1>5 DEF IInv

-----------------------------------------------------------------------------
(* Every step keeps the invariant: the calls that only read. *)

LEMMA GotoFacts ==
    ASSUME Typed, NEW pc \in PCs, Goto(pc)
    PROVE  /\ call' \in CallStates /\ call'.pc = pc /\ call'.terms = call.terms
           /\ call'.id = call.id /\ call'.aid = call.aid /\ call'.resumed = call.resumed
           /\ call'.status = call.status
BY DEF Typed, CallStates, Goto

LEMMA KeepsActive ==
    ASSUME Typed, Keeps(session.active)
    PROVE  session' = session
BY DEF Typed, SessionStates, Keeps

LEMMA DropFacts ==
    ASSUME ReleaseConstants, Typed, Drops
    PROVE  /\ session' \in SessionStates /\ session'.active = 0 /\ session'.key = FALSE
           /\ session'.released = session.released
BY Zero DEF Typed, SessionStates, Drops

(* A call ends, and the session keeps its approval. *)
LEMMA EndStep ==
    ASSUME IInv, ReleaseConstants, Ends, session' = session, used' \in UsedStates,
           UNCHANGED <<now, server, ledger, ghost>>
    PROVE  IInv'
BY Types, Idles, CallStep DEF IInv, Typed

LEMMA FailsStep ==
    ASSUME IInv, ReleaseConstants, Fails, used' \in UsedStates,
           call.aid = 0 \/ call.aid = session.active
    PROVE  IInv'
<1>1. session' = session
  BY Types, KeepsActive DEF IInv, Fails
<1>2. QED
  BY <1>1, EndStep DEF Fails

(* A call ends on an approval that nobody can sign any more. *)
LEMMA DropStep ==
    ASSUME IInv, ReleaseConstants, Ends, Drops, used' \in UsedStates,
           UNCHANGED <<now, server, ledger, ghost>>, ~Signable \/ ConfirmFaults
    PROVE  IInv'
BY Types, Idles, DropFacts, CallStep DEF IInv, Typed

(* A call moves on in what it knows. *)
LEMMA MoveStep ==
    ASSUME IInv, UNCHANGED <<now, server, session, ledger, ghost>>, used' \in UsedStates,
           call' \in CallStates, CallOK'
    PROVE  IInv'
BY Types, CallStep DEF IInv, Typed

LEMMA ConfigStep ==
    ASSUME IInv, ReleaseConstants, Config
    PROVE  IInv'
<1>1. /\ Typed /\ call.pc = "config" /\ CallOK /\ call.aid = session.active
      /\ call.resumed <=> call.aid # 0
  BY Types DEF IInv, Config, CallOK
<1>2. CASE Goto(IF call.resumed THEN "check" ELSE "create")
           /\ UNCHANGED <<now, server, session, ledger, used, ghost>>
 <2>1. PICK pc \in {"check", "create"} : Goto(pc) /\ (pc = "check" <=> call.resumed)
   BY <1>1, <1>2 DEF Typed, CallStates
 <2>2. /\ call' \in CallStates /\ call'.pc = pc /\ call'.terms = call.terms
       /\ call'.aid = call.aid /\ call'.resumed = call.resumed
   BY <1>1, <2>1, GotoFacts DEF PCs
 <2>3. CallOK'
   BY <1>1, <1>2, <2>1, <2>2 DEF CallOK, Waiting, Made, Settled, Signable
 <2>4. QED
   BY <1>1, <1>2, <2>2, <2>3, MoveStep DEF Typed
<1>3. CASE Fault /\ Fails
  BY <1>1, <1>3, FaultType, FailsStep
<1>4. QED
  BY <1>2, <1>3 DEF Config

LEMMA CheckStep ==
    ASSUME IInv, ReleaseConstants, Check
    PROVE  IInv'
<1>1. /\ Typed /\ call.pc = "check" /\ CallOK /\ call.aid = session.active /\ call.aid # 0
      /\ call.resumed /\ call.terms \in Terms /\ used \in UsedStates
  BY Types DEF IInv, Check, CallOK, Waiting, Typed
<1>2. CASE /\ server[call.aid].status = "denied"
              \/ (server[call.aid].status \in {"pending", "approved"} /\ Expired(call.aid))
           /\ Drops /\ Ends /\ UNCHANGED <<now, server, ledger, used, ghost>>
 <2>1. ~Signable
   BY <1>1, <1>2 DEF Signable, Pending
 <2>2. QED
   BY <1>1, <1>2, <2>1, DropStep
<1>3. CASE /\ Pending(call.aid) /\ Goto("surface")
           /\ UNCHANGED <<now, server, session, ledger, used, ghost>>
 <2>1. /\ call' \in CallStates /\ call'.pc = "surface" /\ call'.terms = call.terms
       /\ call'.aid = call.aid /\ call'.resumed = call.resumed
   BY <1>1, <1>3, GotoFacts DEF PCs
 <2>2. CallOK'
   BY <1>1, <1>3, <2>1 DEF CallOK, Waiting, Made
 <2>3. QED
   BY <1>1, <1>3, <2>1, <2>2, MoveStep
<1>4. CASE /\ \/ server[call.aid].status = "gone"
              \/ server[call.aid].status = "approved" /\ ~Expired(call.aid)
           /\ Fails /\ UNCHANGED used
  BY <1>1, <1>4, FailsStep
<1>5. CASE /\ \/ server[call.aid].status = "gone"
              \/ server[call.aid].status = "approved" /\ ~Expired(call.aid)
           /\ Erases /\ call' = [call EXCEPT !.pc = "create", !.aid = 0, !.resumed = FALSE]
           /\ UNCHANGED <<now, server, ledger, ghost, used>>
 <2>1. /\ call' \in CallStates /\ call'.pc = "create" /\ call'.terms = call.terms
       /\ call'.aid = 0 /\ call'.resumed = FALSE
   BY <1>1, <1>5, Zero DEF Typed, CallStates, PCs
 <2>2. /\ session' \in SessionStates /\ session'.active = session.active
       /\ session'.key = FALSE /\ session'.released = session.released
   BY <1>1, <1>5 DEF Typed, SessionStates, Erases
 <2>3. ~Signable /\ ~Signable'
   BY <1>1, <1>5, <2>2 DEF Signable, Pending, Expired
 <2>4. CallOK'
   BY <1>1, <2>1, <2>3 DEF CallOK, Waiting
 <2>5. QED
   BY <1>1, <1>5, <2>1, <2>2, <2>3, <2>4, CallStep DEF Typed
<1>6. CASE Fault /\ Fails
  BY <1>1, <1>6, FaultType, FailsStep
<1>7. QED
  BY <1>2, <1>3, <1>4, <1>5, <1>6 DEF Check

LEMMA ReadStep ==
    ASSUME IInv, ReleaseConstants, Read
    PROVE  IInv'
<1>1. /\ Typed /\ call.pc = "read" /\ CallOK /\ call.aid = session.active /\ call.aid # 0
      /\ call.resumed /\ call.terms \in Terms /\ Made(call.aid) /\ used \in UsedStates
      /\ call.aid \in Approvals
  BY Types, ActiveMade DEF IInv, Read, CallOK, Waiting, Typed
<1>2. CASE /\ server[call.aid].status # "gone"
           /\ call' = [call EXCEPT !.pc = "judge", !.status = server[call.aid].status,
                                   !.staged = server[call.aid].staged /\ Pending(call.aid)]
           /\ UNCHANGED <<now, server, session, ledger, used, ghost>>
 <2>1. /\ server[call.aid].status \in {"none", "pending", "approved", "denied"}
       /\ (server[call.aid].staged /\ Pending(call.aid)) \in BOOLEAN
   BY <1>1, <1>2 DEF Typed, RowStates
 <2>2. /\ call' \in CallStates /\ call'.pc = "judge" /\ call'.terms = call.terms
       /\ call'.aid = call.aid /\ call'.resumed = call.resumed
       /\ call'.status = server[call.aid].status
   BY <1>1, <1>2, <2>1 DEF Typed, CallStates, PCs
 <2>3. CallOK'
   BY <1>1, <1>2, <2>2 DEF CallOK, Waiting, Made
 <2>4. QED
   BY <1>1, <1>2, <2>2, <2>3, MoveStep
<1>3. CASE Keeps(call.aid) /\ Ends /\ UNCHANGED <<now, server, ledger, ghost, used>>
  BY <1>1, <1>3, KeepsActive, EndStep
<1>4. CASE Fault /\ Keeps(call.aid) /\ Ends /\ UNCHANGED <<now, server, ledger, ghost>>
  BY <1>1, <1>4, KeepsActive, FaultType, EndStep
<1>5. QED
  BY <1>2, <1>3, <1>4 DEF Read

LEMMA JudgeStep ==
    ASSUME IInv, ReleaseConstants, Judge
    PROVE  IInv'
<1>1. /\ Typed /\ call.pc = "judge" /\ CallOK /\ call.aid = session.active /\ call.aid # 0
      /\ call.resumed /\ call.terms \in Terms /\ Made(call.aid) /\ used' \in UsedStates
      /\ UNCHANGED <<now, server, ledger, used, ghost>>
  BY Types, ActiveMade DEF IInv, Judge, CallOK, Waiting, Typed
<1>2. CASE call.status = "denied" /\ Drops /\ Ends
 <2>1. ~Signable
   BY <1>1, <1>2 DEF Signable, Pending, CallOK
 <2>2. QED
   BY <1>1, <1>2, <2>1, DropStep
<1>3. CASE /\ UNCHANGED session
           /\ \/ Expired(call.aid) /\ Goto("lastread")
              \/ Goto("verify") \/ Goto("read")
 <2>1. PICK pc \in {"lastread", "verify", "read"} :
           Goto(pc) /\ (pc = "lastread" => Expired(call.aid))
   BY <1>3
 <2>2. /\ call' \in CallStates /\ call'.pc = pc /\ call'.terms = call.terms
       /\ call'.aid = call.aid /\ call'.resumed = call.resumed
   BY <1>1, <2>1, GotoFacts DEF PCs
 <2>3. CallOK'
   BY <1>1, <1>3, <2>1, <2>2 DEF CallOK, Waiting, Made, Expired
 <2>4. QED
   BY <1>1, <1>3, <2>2, <2>3, MoveStep
<1>4. CASE Ends /\ UNCHANGED session
  BY <1>1, <1>4, EndStep
<1>5. CASE Keeps(call.aid) /\ Ends
  BY <1>1, <1>5, KeepsActive, EndStep
<1>6. QED
  BY <1>1, <1>2, <1>3, <1>4, <1>5 DEF Judge

LEMMA LaterStep ==
    ASSUME IInv, ReleaseConstants, LastRead \/ Verify \/ Confirmed \/ Abort
    PROVE  IInv'
<1>1. /\ Typed /\ call.pc \in Waiting /\ CallOK /\ call.aid = session.active /\ call.aid # 0
      /\ call.resumed /\ call.terms \in Terms /\ Made(call.aid) /\ used \in UsedStates
      /\ UNCHANGED <<now, server, ledger, ghost>>
  BY Types, ActiveMade DEF IInv, LastRead, Verify, Confirmed, Abort, CallOK, Waiting, Typed
<1>2. CASE LastRead
 <2>1. ~Signable
   BY <1>1, <1>2 DEF Signable, Pending, CallOK, LastRead
 <2>2. QED
   BY <1>1, <1>2, <2>1, DropStep DEF LastRead
<1>3. ASSUME NEW pc \in {"lastread", "confirm", "fill"}, Goto(pc), UNCHANGED session,
             used' \in UsedStates, pc = "lastread" => Expired(call.aid),
             pc = "fill" => Settled(call.aid)
      PROVE  IInv'
 <2>1. /\ call' \in CallStates /\ call'.pc = pc /\ call'.terms = call.terms
       /\ call'.aid = call.aid /\ call'.resumed = call.resumed
   BY <1>1, <1>3, GotoFacts DEF PCs
 <2>2. CallOK'
   BY <1>1, <1>3, <2>1 DEF CallOK, Waiting, Made, Expired, Settled
 <2>3. QED
   BY <1>1, <1>3, <2>1, <2>2, MoveStep
<1>4. CASE Verify
 <2>1. CASE Ends /\ UNCHANGED session /\ (UNCHANGED used \/ Fault)
   BY <1>1, <2>1, FaultType, EndStep
 <2>2. CASE /\ UNCHANGED session /\ UNCHANGED used
            /\ (Expired(call.aid) /\ Goto("lastread")) \/ Goto("confirm")
   BY <1>1, <1>3, <2>2
 <2>3. QED
   BY <1>4, <2>1, <2>2 DEF Verify
<1>5. CASE Confirmed
  BY <1>1, <1>3, <1>5 DEF Confirmed, CallOK
<1>6. CASE Abort
 <2>1. /\ call' \in CallStates /\ call'.pc = call.pc /\ call'.terms = call.terms
       /\ call'.aid = call.aid /\ call'.resumed = call.resumed /\ call'.status = call.status
   BY <1>1, <1>6 DEF Abort, Typed, CallStates
 <2>2. UNCHANGED session /\ used' \in UsedStates /\ call.pc \in {"read", "judge"}
   BY <1>1, <1>6, FaultType DEF Abort
 <2>3. CallOK'
   BY <1>1, <2>1, <2>2 DEF CallOK, Waiting, Made
 <2>4. QED
   BY <1>1, <2>1, <2>2, <2>3, MoveStep
<1>7. QED
  BY <1>2, <1>4, <1>5, <1>6

-----------------------------------------------------------------------------
(* A call begins: it writes a released card again, is refused, or follows   *)
(* the session's approval unless that is for other terms.                   *)
LEMMA BeginStep ==
    ASSUME IInv, ReleaseConstants, NEW terms \in Terms, NEW id \in 0..MaxApprovals,
           Begin(terms, id)
    PROVE  IInv'
<1> DEFINE next == [Idle EXCEPT !.terms = terms, !.id = id]
           rel == session.released
<1>1. /\ Typed /\ CallOK /\ call.pc = "idle" /\ UNCHANGED <<now, server, ledger>>
      /\ session.active # 0 => session.active \in Approvals /\ Made(session.active)
      /\ ghost' = [ghost EXCEPT !.retired = @ \cup ({session.active} \ {0, session'.active})]
  BY Types, ActiveMade DEF IInv, Begin
<1>2. used' \in UsedStates /\ ledger' \in [Approvals -> 0..2]
  BY <1>1 DEF Begin, Typed, UsedStates, ReleaseConstants
<1>3. /\ ghost' \in GhostStates /\ ghost'.wrote = ghost.wrote /\ ghost'.again = ghost.again
      /\ ghost'.surfaced = ghost.surfaced /\ ghost.retired \subseteq ghost'.retired
      /\ session'.active = 0 => session.active = 0 \/ session.active \in ghost'.retired
  BY <1>1 DEF Typed, GhostStates
<1>4. next \in CallStates /\ next.terms = terms /\ next.aid = 0 /\ next.resumed = FALSE
  BY IdleCall DEF Idle, CallStates
<1> HIDE DEF next
<1>5. CASE call' = call /\ session' = session
 <2>1. CallOK'
   BY <1>1, <1>5 DEF CallOK, Waiting
 <2>2. QED
   BY <1>1, <1>2, <1>3, <1>5, <2>1, CallStep DEF Typed
<1>6. CASE /\ rel # 0 /\ call' = [next EXCEPT !.pc = "refill", !.aid = rel]
           /\ NewTerms \/ server[rel].terms = terms
           /\ session' = session
 <2>1. rel \in 0..MaxApprovals
   BY <1>1 DEF Typed, SessionStates
 <2>2. call' \in CallStates /\ call'.pc = "refill" /\ call'.aid = rel /\ call'.terms = terms
   BY <1>4, <1>6, <2>1 DEF CallStates, PCs
 <2>3. Settled(rel)
   BY <1>6 DEF IInv, SessionOK
 <2>4. CallOK'
   BY <1>1, <1>6, <2>2, <2>3 DEF CallOK, Waiting, Settled
 <2>5. QED
   BY <1>1, <1>2, <1>3, <1>6, <2>2, <2>4, CallStep DEF Typed
<1>7. CASE /\ session' = [session EXCEPT !.released = 0,
                             !.active = IF Changed(terms) THEN 0 ELSE @,
                             !.key = @ /\ ~Changed(terms)]
           /\ call' = [next EXCEPT !.pc = "config", !.aid = session'.active,
                                   !.resumed = session'.active # 0]
 <2>1. /\ session' \in SessionStates /\ session'.released = 0
       /\ session'.active = IF Changed(terms) THEN 0 ELSE session.active
       /\ session'.key = (session.key /\ ~Changed(terms))
  <3>1. Changed(terms) \in BOOLEAN
    BY DEF Changed
  <3>2. QED
    BY <1>1, <1>7, <3>1, Zero DEF Typed, SessionStates
 <2>2. session.key \in BOOLEAN
   BY <1>1 DEF Typed, SessionStates
 <2>3. /\ call' \in CallStates /\ call'.pc = "config" /\ call'.terms = terms
       /\ call'.aid = session'.active /\ (call'.resumed <=> session'.active # 0)
  <3>1. session'.active \in 0..MaxApprovals
    BY <2>1 DEF SessionStates
  <3>2. (session'.active # 0) \in BOOLEAN
    OBVIOUS
  <3>3. QED
    BY <1>4, <1>7, <3>1, <3>2 DEF CallStates, PCs
 <2>4. session'.active # 0 => Made(session'.active) /\ server[session'.active].terms = terms
   BY <1>1, <2>1 DEF Changed
 <2>5. CallOK'
   BY <1>1, <2>3, <2>4 DEF CallOK, Waiting, Made
 <2>6. CASE Changed(terms)
  <3>1. session'.active = 0 /\ session'.key = FALSE /\ session.active \in ghost'.retired
    BY <1>3, <2>1, <2>2, <2>6 DEF Changed
  <3>2. QED
    BY <1>1, <1>2, <1>3, <2>1, <2>3, <2>5, <3>1, CallStep
 <2>7. CASE ~Changed(terms)
  <3>1. session'.active = session.active /\ session'.key = session.key
    BY <2>1, <2>2, <2>7
  <3>2. QED
    BY <1>1, <1>2, <1>3, <2>1, <2>3, <2>5, <3>1, CallStep
 <2>8. QED
   BY <2>6, <2>7
<1>8. QED
  BY <1>5, <1>6, <1>7 DEF Begin, next

-----------------------------------------------------------------------------
(* The rows move: the phone, the sweep, the clock, and the confirmation. *)

(* What a call knows of its rows stays true. *)
LEMMA CallKept ==
    ASSUME IInv, \A a \in Approvals : RowKept(a), call' = call, session' = session
    PROVE  CallOK'
<1>1. Typed /\ CallOK /\ call.aid \in 0..MaxApprovals
  BY Types DEF IInv, Typed, CallStates
<1>2. CASE call.aid = 0
 <2>1. ~Signable => ~Signable'
   BY SignableKept
 <2>2. call.pc \notin Waiting \cup {"surface", "refill"}
   BY <1>1, <1>2 DEF CallOK
 <2>3. QED
   BY <1>1, <1>2, <2>1, <2>2 DEF CallOK, Waiting
<1>3. CASE call.aid # 0
 <2>1. call.aid \in Approvals /\ RowKept(call.aid)
   BY <1>1, <1>3 DEF Approvals
 <2>2. ~Signable => ~Signable'
   BY SignableKept
 <2>3. Made(call.aid)
   BY <1>1, <1>3 DEF CallOK, Settled, Made
 <2>4. QED
   BY <1>1, <1>3, <2>1, <2>2, <2>3 DEF CallOK, RowKept, Waiting
<1>4. QED
  BY <1>2, <1>3

LEMMA OutsideStep ==
    ASSUME IInv, \A a \in Approvals : RowKept(a),
           \A a \in Approvals : server'[a].status = "none" <=> server[a].status = "none",
           now' \in 0..MaxTime, server' \in [Approvals -> RowStates], ledger' \in [Approvals -> 0..2],
           UNCHANGED call, used' \in UsedStates, ghost' \in GhostStates,
           ghost'.wrote = ghost.wrote, ghost'.surfaced = ghost.surfaced,
           ghost'.again = ghost.again, ghost'.retired = ghost.retired,
           UNCHANGED session
    PROVE  IInv'
<1>1. TypeOK'
  BY Types DEF IInv, TypeOK, Typed, RowStates, SessionStates, CallStates, GhostStates, UsedStates
<1>2. SessionOK' /\ WroteOK' /\ OpenOK' /\ CallOK'
  BY SessionKept, WroteKept, OpenKept, CallKept DEF IInv, Typed, SessionStates
<1>3. QED
  BY <1>1, <1>2, RowsKept DEF IInv

LEMMA PhoneStep ==
    ASSUME IInv, NEW a \in Approvals, Phone(a)
    PROVE  IInv'
<1>1. /\ Typed /\ Pending(a) /\ server[a] \in RowStates
      /\ UNCHANGED <<now, session, call, ledger, used, ghost>>
  BY Types DEF IInv, Phone, Typed
<1>2. PICK x \in {[server[a] EXCEPT !.staged = TRUE], [server[a] EXCEPT !.status = "denied"]} :
          server' = [server EXCEPT ![a] = x]
  BY DEF Phone
<1>3. /\ x \in RowStates /\ x.terms = server[a].terms /\ x.by = server[a].by
      /\ x.status \in {"pending", "denied"}
  BY <1>1 DEF RowStates, Pending
<1>4. /\ server' \in [Approvals -> RowStates] /\ server'[a] = x
      /\ \A b \in Approvals : b # a => server'[b] = server[b]
  BY <1>1, <1>2, <1>3 DEF Typed
<1>5. \A b \in Approvals : RowKept(b) /\ (server'[b].status = "none" <=> server[b].status = "none")
  BY <1>1, <1>3, <1>4 DEF RowKept, Made, Settled, Pending, Expired
<1>6. QED
  BY <1>1, <1>4, <1>5, OutsideStep DEF Typed

LEMMA SweepStep ==
    ASSUME IInv, NEW a \in Approvals, Sweep(a)
    PROVE  IInv'
<1> DEFINE x == [server[a] EXCEPT !.status = "gone"]
<1>1. /\ Typed /\ Expired(a) /\ server[a].status # "none" /\ server[a] \in RowStates
      /\ server' = [server EXCEPT ![a] = x]
      /\ UNCHANGED <<now, session, call, ledger, used, ghost>>
  BY Types DEF IInv, Sweep, Typed
<1>2. /\ x \in RowStates /\ x.terms = server[a].terms /\ x.by = server[a].by /\ x.status = "gone"
  BY <1>1 DEF RowStates
<1> HIDE DEF x
<1>3. /\ server' \in [Approvals -> RowStates] /\ server'[a] = x
      /\ \A b \in Approvals : b # a => server'[b] = server[b]
  BY <1>1, <1>2 DEF Typed
<1>4. \A b \in Approvals : RowKept(b) /\ (server'[b].status = "none" <=> server[b].status = "none")
  BY <1>1, <1>2, <1>3 DEF RowKept, Made, Settled, Pending, Expired
<1>5. QED
  BY <1>1, <1>3, <1>4, OutsideStep DEF Typed

LEMMA TickStep ==
    ASSUME IInv, ReleaseConstants, Tick
    PROVE  IInv'
<1>1. /\ Typed /\ now' = now + 1 /\ now' \in 0..MaxTime
      /\ UNCHANGED <<server, session, call, ledger, used, ghost>>
  BY Types DEF IInv, Tick, Typed, ReleaseConstants
<1>2. \A b \in Approvals : server[b].by \in Nat /\ now \in Nat
  BY <1>1 DEF Typed, RowStates
<1>3. \A b \in Approvals : Expired(b) => Expired(b)'
  BY <1>1, <1>2 DEF Expired
<1>4. \A b \in Approvals : RowKept(b)
  BY <1>1, <1>3 DEF RowKept, Made, Settled, Pending
<1>5. QED
  BY <1>1, <1>4, OutsideStep DEF Typed

LEMMA ConfirmStep ==
    ASSUME IInv, ReleaseConstants, Confirm
    PROVE  IInv'
<1>1. PICK a \in Approvals : a = call.aid /\ a = session.active /\ Made(a)
  BY Types, ActiveMade DEF IInv, Confirm, CallOK, Waiting
<1> DEFINE x == [server[a] EXCEPT !.status = "approved"]
<1>2. /\ Typed /\ call.pc = "confirm" /\ CallOK /\ call.resumed /\ call.terms \in Terms
      /\ server[a] \in RowStates /\ UNCHANGED <<now, ledger, ghost>> /\ used \in UsedStates
      /\ server[a].terms = call.terms /\ a # 0
  BY <1>1, Types DEF IInv, Confirm, CallOK, Waiting, Typed, Approvals
<1>3. x \in RowStates /\ x.terms = server[a].terms /\ x.by = server[a].by /\ x.status = "approved"
  BY <1>2 DEF RowStates
<1> HIDE DEF x
<1>4. ASSUME Pending(a), server' = [server EXCEPT ![a] = x]
      PROVE  /\ server' \in [Approvals -> RowStates] /\ server'[a] = x
             /\ \A b \in Approvals : /\ RowKept(b)
                                     /\ server'[b].status = "none" <=> server[b].status = "none"
 <2>1. /\ server' \in [Approvals -> RowStates] /\ server'[a] = x
       /\ \A b \in Approvals : b # a => server'[b] = server[b]
   BY <1>2, <1>3, <1>4 DEF Typed
 <2>2. QED
   BY <1>2, <1>3, <1>4, <2>1 DEF RowKept, Made, Settled, Pending, Expired
<1>5. CASE /\ Pending(a) /\ server' = [server EXCEPT ![a] = x] /\ Goto("confirmed")
           /\ UNCHANGED <<session, used>>
 <2>1. /\ call' \in CallStates /\ call'.pc = "confirmed" /\ call'.terms = call.terms
       /\ call'.aid = a /\ call'.resumed = call.resumed
   BY <1>1, <1>2, <1>5, GotoFacts DEF PCs
 <2>2. CallOK'
   BY <1>1, <1>2, <1>3, <1>4, <1>5, <2>1 DEF CallOK, Waiting, Made, Settled
 <2>3. TypeOK'
   BY <1>2, <1>4, <1>5, <2>1, Types
      DEF IInv, TypeOK, Typed, RowStates, SessionStates, CallStates, GhostStates, UsedStates
 <2>4. SessionOK' /\ WroteOK' /\ OpenOK'
   BY <1>2, <1>4, <1>5, SessionKept, WroteKept, OpenKept
 <2>5. QED
   BY <1>4, <1>5, <2>2, <2>3, <2>4, RowsKept DEF IInv
<1>6. CASE ~Pending(a) /\ Drops /\ Ends /\ UNCHANGED <<server, used>>
 <2>1. ~Signable
   BY <1>1, <1>6 DEF Signable
 <2>2. QED
   BY <1>2, <1>6, <2>1, DropStep
<1>7. CASE /\ ConfirmFaults /\ Fault /\ Drops /\ Ends /\ UNCHANGED server
  BY <1>2, <1>7, FaultType, DropStep
<1>8. CASE /\ ConfirmFaults /\ Fault /\ Drops /\ Ends
           /\ Pending(a) /\ server' = [server EXCEPT ![a] = x]
 <2>1. used' \in UsedStates /\ call' \in CallStates /\ CallOK'
   BY <1>2, <1>8, FaultType, Idles
 <2>2. /\ session' \in SessionStates /\ session'.active = 0 /\ session'.key = FALSE
       /\ session'.released = session.released
   BY <1>2, <1>8, DropFacts
 <2>3. TypeOK'
   BY <1>2, <1>4, <1>8, <2>1, <2>2, Types
      DEF TypeOK, Typed, RowStates, SessionStates, CallStates, GhostStates, UsedStates
 <2>4. SessionOK' /\ WroteOK' /\ OpenOK'
   BY <1>2, <1>4, <1>8, <2>2, SessionKept, WroteKept, OpenKept
 <2>5. QED
   BY <1>4, <1>8, <2>1, <2>3, <2>4, RowsKept DEF IInv
<1>9. QED
  BY <1>1, <1>5, <1>6, <1>7, <1>8 DEF Confirm, x

-----------------------------------------------------------------------------
(* A row is made, a link is shown, a card is written, a payment recorded. *)

(* The next row is the first that is not made. *)
LEMMA NextRow ==
    ASSUME IInv, ReleaseConstants
    PROVE  /\ 1 + Cardinality({b \in Approvals : server[b].status # "none"}) \in Nat \ {0}
           /\ \A a \in Approvals :
                 a = 1 + Cardinality({b \in Approvals : server[b].status # "none"}) =>
                 ~Made(a) /\ \A b \in Approvals : Made(b) <=> b < a
<1>1. PICK k \in 0..MaxApprovals : \A b \in Approvals : Made(b) <=> b <= k
  BY DEF IInv, RowsOK
<1>2. MaxApprovals \in Nat /\ k \in Nat
  BY Zero
<1>3. {b \in Approvals : server[b].status # "none"} = 1..k
  BY <1>1, <1>2 DEF Made, Approvals
<1>4. Cardinality(1..k) = k
  BY <1>2, FS_Interval
<1>5. Cardinality({b \in Approvals : server[b].status # "none"}) = k
  BY <1>3, <1>4
<1>6. \A b \in Approvals : b \in Nat /\ (b <= k <=> b < 1 + k)
  BY <1>2 DEF Approvals
<1>7. QED
  BY <1>1, <1>2, <1>5, <1>6

LEMMA CreateStep ==
    ASSUME IInv, ReleaseConstants, Create
    PROVE  IInv'
<1> DEFINE n == 1 + Cardinality({b \in Approvals : server[b].status # "none"})
           row == [terms |-> call.terms, status |-> "pending", staged |-> FALSE, by |-> now + Ttl]
<1>1. /\ Typed /\ CallOK /\ call.pc = "create" /\ call.aid = 0 /\ ~call.resumed /\ ~Signable
      /\ call.terms \in Terms /\ UNCHANGED <<now, ledger>> /\ used \in UsedStates
  BY Types DEF IInv, Create, CallOK, Typed
<1>2. row \in RowStates /\ row.terms = call.terms /\ row.status = "pending"
  BY <1>1 DEF RowStates, Typed, ReleaseConstants
<1> HIDE DEF row
<1>3. ASSUME NEW a \in Approvals, a = n, server' = [server EXCEPT ![a] = row]
      PROVE  /\ server' \in [Approvals -> RowStates] /\ server'[a] = row
             /\ ~Made(a) /\ a # session.active /\ RowsOK'
             /\ \A b \in Approvals : RowKept(b)
 <2>1. ~Made(a) /\ \A b \in Approvals : Made(b) <=> b < a
   BY <1>3, NextRow
 <2>2. /\ server' \in [Approvals -> RowStates] /\ server'[a] = row
       /\ \A b \in Approvals : b # a => server'[b] = server[b]
   BY <1>1, <1>2, <1>3 DEF Typed
 <2>3. \A b \in Approvals : RowKept(b)
   BY <1>1, <2>1, <2>2 DEF RowKept, Made, Settled, Pending, Expired
 <2>4. RowsOK'
  <3>1. \A b \in Approvals : Made(b)' <=> b <= a
    BY <1>2, <2>1, <2>2 DEF Made, Approvals
  <3>2. a \in 0..MaxApprovals
    BY Zero DEF Approvals
  <3>3. QED
    BY <3>1, <3>2 DEF RowsOK
 <2>5. a # session.active
   BY <2>1, ActiveMade, Zero DEF Approvals
 <2>6. QED
   BY <2>1, <2>2, <2>3, <2>4, <2>5
<1>4. ASSUME NEW a \in Approvals, a = n, server' = [server EXCEPT ![a] = row],
             call' = [call EXCEPT !.pc = "surface", !.aid = a],
             ghost' = [ghost EXCEPT !.again = @ \/ OpenFor(call.terms) # {}],
             UNCHANGED <<session, used>>
      PROVE  IInv'
 <2>1. /\ call' \in CallStates /\ call'.pc = "surface" /\ call'.terms = call.terms
       /\ call'.aid = a /\ call'.resumed = call.resumed
   BY <1>1, <1>4, ApprovalId DEF Typed, CallStates, PCs
 <2>2. a # 0
   BY DEF Approvals
 <2>3. ~Signable'
   BY <1>1, <1>3, <1>4, SignableKept
 <2>4. CallOK'
   BY <1>1, <1>2, <1>3, <1>4, <2>1, <2>2, <2>3 DEF CallOK, Waiting, Made
 <2>5. ~ConfirmFaults => OpenFor(call.terms) = {}
  <3> SUFFICES ASSUME ~ConfirmFaults, NEW b \in ghost.surfaced \ ghost.retired, Pending(b)
               PROVE  FALSE
    BY DEF OpenFor
  <3>1. b \in Approvals /\ b = session.active
    BY <1>1 DEF IInv, OpenOK, Typed, GhostStates
  <3>2. QED
    BY <1>1, <3>1 DEF Signable, Approvals
 <2>6. /\ ghost' \in GhostStates /\ ghost'.wrote = ghost.wrote
       /\ ghost'.surfaced = ghost.surfaced /\ ghost'.retired = ghost.retired
       /\ ghost'.again = (ghost.again \/ OpenFor(call.terms) # {})
  <3>1. (OpenFor(call.terms) # {}) \in BOOLEAN
    OBVIOUS
  <3> HIDE DEF OpenFor
  <3>2. QED
    BY <1>1, <1>4, <3>1 DEF Typed, GhostStates
 <2>7. TypeOK'
   BY <1>1, <1>3, <1>4, <2>1, <2>6, Types
      DEF IInv, TypeOK, Typed, RowStates, SessionStates, CallStates, GhostStates, UsedStates
 <2>8. SessionOK' /\ WroteOK'
   BY <1>1, <1>3, <1>4, <2>6, SessionKept, WroteKept
 <2>9. OpenOK'
  <3> SUFFICES ASSUME ~ConfirmFaults
               PROVE  ~ghost'.again /\ \A b \in ghost'.surfaced \ ghost'.retired :
                                           Pending(b)' => b = session'.active
    BY DEF OpenOK
  <3>1. ghost'.again = ghost.again
    BY <1>1, <2>5, <2>6 DEF Typed, GhostStates
  <3>2. QED
    BY <1>3, <1>4, <2>6, <3>1, OpenKept DEF OpenOK
 <2>10. QED
   BY <1>3, <1>4, <2>4, <2>7, <2>8, <2>9 DEF IInv
<1>5. CASE Fault /\ Fails
  BY <1>1, <1>5, FaultType, FailsStep
<1>6. ASSUME NEW a \in Approvals, a = n, server' = [server EXCEPT ![a] = row], Fault, Ends,
             UNCHANGED <<session, ghost>>
      PROVE  IInv'
 <2>1. used' \in UsedStates /\ call' \in CallStates /\ CallOK'
   BY <1>1, <1>6, FaultType, Idles
 <2>2. TypeOK'
   BY <1>1, <1>3, <1>6, <2>1, Types
      DEF IInv, TypeOK, Typed, RowStates, SessionStates, CallStates, GhostStates, UsedStates
 <2>3. SessionOK' /\ WroteOK' /\ OpenOK'
   BY <1>1, <1>3, <1>6, SessionKept, WroteKept, OpenKept
 <2>4. QED
   BY <1>3, <1>6, <2>1, <2>2, <2>3 DEF IInv
<1>7. CASE Ends /\ UNCHANGED <<server, session, used, ghost>>
  BY <1>1, <1>7, EndStep
<1>8. QED
  BY <1>4, <1>5, <1>6, <1>7 DEF Create, row

(* Showing a fresh link makes it the session's, with its key. *)
LEMMA SurfaceStep ==
    ASSUME IInv, ReleaseConstants, Surface
    PROVE  IInv'
<1>1. PICK a \in Approvals : a = call.aid /\ Made(a) /\ a # 0
  BY Types, Zero DEF IInv, Surface, CallOK, Typed, CallStates, Approvals
<1>2. /\ Typed /\ CallOK /\ call.pc = "surface" /\ call.terms \in Terms
      /\ server[a].terms = call.terms /\ UNCHANGED <<now, server, ledger>> /\ used \in UsedStates
      /\ ghost' = [ghost EXCEPT !.surfaced = @ \cup {a}]
  BY <1>1, Types DEF IInv, Surface, CallOK, Typed
<1>3. /\ ghost' \in GhostStates /\ ghost'.wrote = ghost.wrote /\ ghost'.again = ghost.again
      /\ ghost'.surfaced = ghost.surfaced \cup {a} /\ ghost'.retired = ghost.retired
  BY <1>2 DEF Typed, GhostStates
<1>4. /\ session.active # 0 => session.active \in ghost.surfaced
      /\ session.key => session.active # 0
  BY Types DEF IInv
<1>5. CASE call.resumed
 <2>1. a = session.active /\ ghost'.surfaced = ghost.surfaced
   BY <1>1, <1>2, <1>3, <1>4, <1>5 DEF CallOK
 <2>2. CASE /\ call' = [call EXCEPT !.pc = "read",
                          !.until = IF now + Budget < server[call.aid].by THEN now + Budget
                                    ELSE server[call.aid].by]
            /\ UNCHANGED <<session, used>>
  <3>1. (IF now + Budget < server[call.aid].by THEN now + Budget ELSE server[call.aid].by) \in Nat
    BY <1>1, <1>2 DEF Typed, RowStates, ReleaseConstants
  <3>2. /\ call' \in CallStates /\ call'.pc = "read" /\ call'.terms = call.terms
        /\ call'.aid = call.aid /\ call'.resumed = call.resumed
    BY <1>2, <2>2, <3>1 DEF Typed, CallStates, PCs
  <3>3. CallOK'
    BY <1>1, <1>2, <1>5, <2>1, <2>2, <3>2 DEF CallOK, Waiting, Made
  <3>4. QED
    BY <1>2, <1>3, <2>1, <2>2, <3>2, <3>3, CallStep DEF Typed
 <2>3. CASE Fault /\ Keeps(call.aid) /\ Ends
  <3>1. session' = session /\ used' \in UsedStates /\ call' \in CallStates /\ CallOK'
    BY <1>1, <1>2, <2>1, <2>3, KeepsActive, FaultType, Idles
  <3>2. QED
    BY <1>2, <1>3, <2>1, <3>1, CallStep DEF Typed
 <2>4. QED
   BY <1>5, <2>2, <2>3 DEF Surface
<1>6. CASE ~call.resumed
 <2>1. Keeps(a) /\ Ends /\ used' \in UsedStates
   BY <1>1, <1>2, <1>6, FaultType DEF Surface
 <2>2. a # session.active /\ ~Signable
   BY <1>1, <1>2, <1>6 DEF CallOK
 <2>3. /\ session' \in SessionStates /\ session'.active = a /\ session'.key
       /\ session'.released = session.released
   BY <1>2, <2>1, <2>2, ApprovalId DEF Typed, SessionStates, Keeps
 <2>4. call' \in CallStates /\ CallOK'
   BY <2>1, Idles
 <2>5. TypeOK'
   BY <1>1, <1>2, <1>3, <2>1, <2>3, <2>4
      DEF TypeOK, Typed, RowStates, SessionStates, CallStates, GhostStates, UsedStates
 <2>6. SessionOK' /\ WroteOK'
  <3>1. \A b \in ghost.surfaced : Made(b)
    BY DEF IInv, SessionOK
  <3>2. session'.released # 0 => Settled(session'.released)
    BY <2>3 DEF IInv, SessionOK
  <3>3. SessionOK'
    BY <1>1, <1>2, <1>3, <2>3, <3>1, <3>2 DEF SessionOK, Made, Settled
  <3>4. QED
    BY <1>2, <1>3, <3>3, RowsUnchanged, WroteKept
 <2>7. OpenOK'
  <3> SUFFICES ASSUME ~ConfirmFaults
               PROVE  ~ghost'.again /\ \A b \in ghost'.surfaced \ ghost'.retired :
                                           Pending(b)' => b = session'.active
    BY DEF OpenOK
  <3>1. ASSUME NEW b \in ghost.surfaced \ ghost.retired
        PROVE  ~Pending(b)
   <4>1. Pending(b) => b = session.active /\ b # 0
     BY <1>2 DEF IInv, OpenOK, Typed, GhostStates, Approvals
   <4>2. QED
     BY <2>2, <4>1 DEF Signable
  <3>2. ~ghost.again
    BY DEF IInv, OpenOK
  <3>3. QED
    BY <1>2, <1>3, <2>3, <3>1, <3>2 DEF Pending, Expired
 <2>8. QED
   BY <1>2, <2>4, <2>5, <2>6, <2>7, RowsKept DEF IInv
<1>7. QED
  BY <1>5, <1>6

(* A card is written under a settled approval, for the terms of the call. *)
LEMMA WroteFacts ==
    ASSUME IInv, UNCHANGED <<now, server>>, call.aid \in Approvals, call.terms \in Terms,
           Settled(call.aid), ~NewTerms => server[call.aid].terms = call.terms,
           Wrote(call.aid) \/ UNCHANGED ghost
    PROVE  /\ ghost' \in GhostStates /\ ghost'.again = ghost.again
           /\ ghost'.surfaced = ghost.surfaced /\ ghost'.retired = ghost.retired
           /\ WroteOK'
<1> DEFINE w == [id |-> call.aid, terms |-> call.terms]
<1>1. Typed /\ w \in [id : Approvals, terms : Terms] /\ w.id = call.aid /\ w.terms = call.terms
  BY Types DEF IInv
<1> HIDE DEF w
<1>2. CASE Wrote(call.aid)
 <2>1. ghost' = [ghost EXCEPT !.wrote = @ \cup {w}]
   BY <1>2 DEF Wrote, w
 <2>2. /\ ghost' \in GhostStates /\ ghost'.again = ghost.again
       /\ ghost'.surfaced = ghost.surfaced /\ ghost'.retired = ghost.retired
       /\ ghost'.wrote = ghost.wrote \cup {w}
   BY <1>1, <2>1 DEF Typed, GhostStates
 <2>3. WroteOK'
   BY <1>1, <2>2 DEF IInv, WroteOK, Settled
 <2>4. QED
   BY <2>2, <2>3
<1>3. CASE UNCHANGED ghost
  BY <1>1, <1>3 DEF IInv, WroteOK, Typed, Settled
<1>4. QED
  BY <1>2, <1>3

LEMMA FillStep ==
    ASSUME IInv, ReleaseConstants, Fill \/ Refill
    PROVE  IInv'
<1>1. /\ Typed /\ CallOK /\ call.pc \in {"fill", "refill"} /\ call.terms \in Terms /\ call.aid # 0
      /\ Settled(call.aid) /\ UNCHANGED <<now, server, ledger, used>> /\ Ends
      /\ ~NewTerms => server[call.aid].terms = call.terms
      /\ Wrote(call.aid) \/ UNCHANGED ghost
  BY Types DEF IInv, Fill, Refill, CallOK, Waiting
<1>2. call.aid \in Approvals /\ call' \in CallStates /\ CallOK'
  BY <1>1, Idles DEF Typed, CallStates, Approvals
<1>3. /\ ghost' \in GhostStates /\ ghost'.again = ghost.again
      /\ ghost'.surfaced = ghost.surfaced /\ ghost'.retired = ghost.retired /\ WroteOK'
  BY <1>1, <1>2, WroteFacts
<1>4. \A a \in Approvals : RowKept(a)
  BY <1>1, RowsUnchanged
<1>5. Fill => call.aid = session.active /\ ~Signable
  BY <1>1 DEF Fill, CallOK, Waiting, Signable, Pending, Settled
<1>6. /\ session' \in SessionStates /\ SessionOK'
      /\ session'.active = session.active \/ (session'.active = 0 /\ ~Signable)
      /\ session'.key => session.key /\ session'.active = session.active
 <2>1. CASE session' = [session EXCEPT !.active = 0, !.key = FALSE, !.released = call.aid] /\ Fill
  <3>1. /\ session' \in SessionStates /\ session'.active = 0 /\ session'.key = FALSE
        /\ session'.released = call.aid
    BY <1>1, <1>2, <2>1, Zero, ApprovalId DEF Typed, SessionStates
  <3>2. SessionOK'
    BY <1>1, <1>3, <3>1 DEF IInv, SessionOK, Signable, Settled, Made
  <3>3. QED
    BY <1>5, <2>1, <3>1, <3>2
 <2>2. CASE Erases /\ Fill
  <3>1. /\ session' \in SessionStates /\ session'.active = session.active
        /\ session'.key = FALSE /\ session'.released = session.released
    BY <1>1, <2>2 DEF Typed, SessionStates, Erases
  <3>2. QED
    BY <1>3, <1>4, <1>5, <2>2, <3>1, SessionKept
 <2>3. CASE session' = session
   BY <1>1, <1>3, <1>4, <2>3, SessionKept DEF Typed, SessionStates
 <2>4. QED
   BY <2>1, <2>2, <2>3 DEF Fill, Refill
<1>7. TypeOK'
  BY <1>1, <1>2, <1>3, <1>6, Types
     DEF IInv, TypeOK, Typed, RowStates, SessionStates, CallStates, GhostStates, UsedStates
<1>8. OpenOK'
  BY <1>3, <1>4, <1>6, OpenKept
<1>9. QED
  BY <1>1, <1>2, <1>3, <1>6, <1>7, <1>8, RowsKept DEF IInv

LEMMA ObserveStep ==
    ASSUME IInv, ReleaseConstants, Observe
    PROVE  IInv'
<1> DEFINE a == session.released
<1>1. /\ Typed /\ CallOK /\ call.pc = "idle" /\ a \in Approvals /\ UNCHANGED <<now, server, call>>
      /\ used' \in UsedStates
  BY Types, FaultType DEF IInv, Observe, Typed, SessionStates, Approvals
<1>2. ledger' \in [Approvals -> 0..2]
 <2>1. CASE ledger' = ledger
   BY <1>1, <2>1 DEF Typed
 <2>2. CASE ledger[a] < 2 /\ ledger' = [ledger EXCEPT ![a] = @ + 1]
   BY <1>1, <2>2 DEF Typed
 <2>3. QED
   BY <2>1, <2>2 DEF Observe
<1>3. /\ session' \in SessionStates /\ session'.active = session.active
      /\ session'.key = session.key /\ session'.released = session.released
  BY <1>1 DEF Observe, Typed, SessionStates
<1>4. /\ ghost' \in GhostStates /\ ghost'.wrote = ghost.wrote /\ ghost'.surfaced = ghost.surfaced
      /\ ghost'.again = ghost.again /\ ghost'.retired = ghost.retired
 <2>1. CASE ghost' = [ghost EXCEPT !.recorded = @ \cup {a}]
   BY <1>1, <2>1 DEF Typed, GhostStates
 <2>2. CASE ghost' = ghost
   BY <1>1, <2>2 DEF Typed
 <2>3. QED
   BY <2>1, <2>2 DEF Observe
<1>5. CallOK'
  BY <1>1 DEF CallOK, Waiting
<1>6. QED
  BY <1>1, <1>2, <1>3, <1>4, <1>5, CallStep DEF Typed

-----------------------------------------------------------------------------
LEMMA StepKeeps ==
    ASSUME IInv, ReleaseConstants, [Next]_vars
    PROVE  IInv'
<1>1. CASE UNCHANGED vars
 <2>1. UNCHANGED <<now, server, session, call, ledger, used, ghost>>
   BY <1>1 DEF vars
 <2>2. QED
   BY <2>1, RowsUnchanged, OutsideStep, Types DEF IInv, Typed
<1>2. CASE \E terms \in Terms, id \in 0..MaxApprovals : Begin(terms, id)
  BY <1>2, BeginStep
<1>3. CASE Step
  BY <1>3, ConfigStep, CheckStep, CreateStep, SurfaceStep, ReadStep, JudgeStep, LaterStep,
     ConfirmStep, FillStep DEF Step
<1>4. CASE Abort \/ Observe \/ Tick
  BY <1>4, LaterStep, ObserveStep, TickStep
<1>5. CASE \E a \in Approvals : Phone(a) \/ Sweep(a)
  BY <1>5, PhoneStep, SweepStep
<1>6. QED
  BY <1>1, <1>2, <1>3, <1>4, <1>5 DEF Next

LEMMA InitKeeps ==
    ASSUME Init, ReleaseConstants
    PROVE  IInv
<1>1. \A a \in Approvals : server[a].status = "none"
  BY DEF Init, Unmade
<1>2. Typed
 <2>1. 0 \in 0..MaxTime /\ 0 \in 0..MaxCalls /\ 0 \in 0..MaxFaults
   BY DEF ReleaseConstants
 <2>2. Unmade \in RowStates
   BY DEF Unmade, RowStates
 <2>3. QED
   BY <2>1, <2>2, IdleCall, Zero
      DEF Init, Typed, SessionStates, UsedStates, GhostStates
<1>3. TypeOK
  BY <1>2, Types DEF Init
<1>4. RowsOK
  BY <1>1, Zero DEF RowsOK, Made, Approvals
<1>5. CallOK
  BY IdleCall DEF Init, CallOK, Waiting
<1>6. SessionOK /\ WroteOK /\ OpenOK
  BY DEF Init, SessionOK, WroteOK, OpenOK, Signable
<1>7. QED
  BY <1>3, <1>4, <1>5, <1>6 DEF IInv

(* Every reachable state satisfies the inductive invariant: a call follows  *)
(* the session's approval, whose key is there while it can be signed, and   *)
(* what was settled on the server stays settled.                            *)
THEOREM ReleaseIsSound == ReleaseConstants => (Spec => []IInv)
<1> SUFFICES ASSUME ReleaseConstants
             PROVE  Spec => []IInv
  OBVIOUS
<1>1. Init => IInv
  BY InitKeeps
<1>2. IInv /\ [Next]_vars => IInv'
  BY StepKeeps
<1>3. QED
  BY <1>1, <1>2, PTL DEF Spec

(* The promises of inject_card: a card is written only under an approval    *)
(* the server confirmed, and for the terms it was asked for; an approval    *)
(* the human can sign can be opened; and the human is not asked again while *)
(* an earlier link for the same terms is open.                              *)
THEOREM ReleaseIsSafe == ReleaseConstants => (Spec => []ReleaseSafe)
<1> SUFFICES ASSUME ReleaseConstants
             PROVE  Spec => []ReleaseSafe
  OBVIOUS
<1>1. IInv => ReleaseSafe
  BY DEF IInv, SessionOK, WroteOK, OpenOK, Signable, Settled, ReleaseSafe, WrittenIsConfirmed,
         WrittenAsAsked, SignableIsOpenable, AskedOnce
<1>2. QED
  BY <1>1, ReleaseIsSound, PTL

-----------------------------------------------------------------------------
(* OperateClick: a click of a session's page. *)

(* Controls whose second press would count: the page tells at once, or it is *)
(* a plain button.                                                           *)
Plain == control.is = "button" \/ (control.is # "item" /\ control.prompt /\ errors = 0)
Clicking == act.try = "click"
Unheard == act.armed /\ ~act.heard
BoundIsNew == \A n \in Nodes : n = act.bound => clicks[n] = 0

BeforePress == {"start", "resolve", "occlusion", "option", "bind", "mark", "listen", "lift", "press",
           "strike", "aimed"}
Unarmed == {"start", "resolve", "occlusion", "option", "enter", "filter", "bind", "mark", "listen"}
InPress == {"press", "strike", "aimed", "toggled", "backup", "struck", "restore"}

(* What the page counts. *)
Counted ==
    /\ \A n \in Nodes : clicks[n] <= presses
    /\ control.prompt => shown = presses

(* Which controls come by each line. *)
Lines ==
    /\ act.pc \in {"occlusion", "option", "enter", "filter"} => control.via = "drive"
    /\ act.pc \in {"enter", "filter", "option"} => control.is = "option"
    /\ act.pc = "toggled" => control.is \in {"switch", "keyed"}
    /\ act.pc = "backup" => control.is = "item"
    /\ act.pc = "aimed" => control.via # "locator"
    /\ act.pc = "js" => ~Clicking
    /\ act.pc \notin {"start", "resolve", "js", "judge", "over"} => Clicking
    /\ control.via = "locator" /\ act.pc = "strike" => act.aim = act.bound
    /\ control.via = "locator" /\ act.pc \notin {"start", "resolve"} /\ Clicking =>
         act.pc = "over" \/ act.bound \in Nodes
    /\ act.answer # "none" => act.pc = "over"

(* Presses before the first press, and until the listener is judged. *)
FirstTry == Clicking =>
    /\ act.pc \in BeforePress /\ (control.is # "option" \/ Plain) => presses = 0
    /\ act.pc \in {"start", "resolve", "occlusion", "option"} => presses = 0
    /\ Plain => presses <= 1
    /\ act.pc \in {"toggled", "enter", "filter"} => act.before = 0
    /\ act.pc = "toggled" => presses <= 1
    /\ act.pc \in {"enter", "filter"} => presses >= 1

(* What the listener knows. *)
Listened ==
    /\ act.pc \in {"mark", "listen"} => Listening /\ act.bound \in Nodes
    /\ act.armed => Listening /\ act.bound \in Nodes /\ journal = "attempted"
    /\ act.pc \in Unarmed => ~act.armed
    /\ Unheard /\ control.is # "option" => BoundIsNew
    /\ Unheard /\ control.via = "locator" => presses = 0

(* What was proven not dispatched. *)
Proven ==
    /\ act.status # "none" => act.pc \in {"restore", "judge", "over"}
    /\ act.status = "not_dispatched" /\ control.is # "option" => BoundIsNew
    /\ act.pc \in {"restore", "judge"} /\ act.status # "none" /\ act.err = "intercepts"
         => control.via = "drive"

(* The repetition. *)
Repeats == ~Clicking =>
    /\ control.via # "drive" /\ control.active /\ journal = "attempted"
    /\ act.pc \in {"start", "resolve", "js", "judge", "over"}
    /\ act.pc \in {"start", "resolve", "js"} =>
         /\ BoundIsNew
         /\ control.via = "locator" => presses = 0
         /\ Plain => presses <= 1
         /\ presses > 0 => act.bound \in Nodes
    /\ act.pc = "js" /\ control.via = "locator" => act.bound \in Nodes

Journalled ==
    /\ act.pc \in InPress \cup {"listen", "lift"} /\ Listening => journal = "attempted"
    /\ JournalKnows

Background ==
    control.modal /\ dialog /\ page = "live" =>
        inert = "set" \/ (inert = "lifted" /\ act.pc \in InPress)

ClickInv ==
    /\ ClickTypeOK /\ Counted /\ Lines /\ FirstTry /\ Listened /\ Proven /\ Repeats
    /\ Journalled /\ Background /\ PressedOnce /\ ProvenIsTrue

SameListener == act'.armed = act.armed /\ act'.bound = act.bound
SameAim == act'.aim = act.aim /\ act'.before = act.before
SameFate == act'.err = act.err /\ act'.status = act.status /\ act'.answer = act.answer
SameTry == act'.try = act.try

Unpressed == UNCHANGED <<clicks, presses, shown>> /\ act'.heard = act.heard
Pressed(n) ==
    /\ n \in Nodes /\ clicks' \in [Nodes -> Nat] /\ clicks'[n] = clicks[n] + 1
    /\ \A m \in Nodes : m # n => clicks'[m] = clicks[m]
    /\ presses' \in Nat /\ presses' = presses + 1 /\ shown' \in 0..presses'
    /\ control.prompt => shown' = presses'
    /\ act'.heard = (act.heard \/ (act.armed /\ n = act.bound))

Like(r) ==
    /\ r.try = act.try /\ r.armed = act.armed /\ r.bound = act.bound /\ r.heard = act.heard
    /\ r.aim = act.aim /\ r.before = act.before

LEMMA AtIs ==
    ASSUME act \in ActType, NEW where \in ClickPCs
    PROVE  /\ At(where) \in ActType /\ Like(At(where)) /\ At(where).pc = where
           /\ At(where).err = act.err /\ At(where).status = act.status
           /\ At(where).answer = act.answer
BY DEF At, ActType, Like

LEMMA ThrownIs ==
    ASSUME act \in ActType, NEW err \in {"none", "intercepts", "closed", "gone", "other"}
    PROVE  /\ Thrown(err) \in ActType /\ Like(Thrown(err)) /\ Thrown(err).pc = "restore"
           /\ Thrown(err).err = err /\ Thrown(err).status = act.status
           /\ Thrown(err).answer = act.answer
<1>1. "restore" \in ClickPCs
  BY DEF ClickPCs
<1>2. QED
  BY <1>1 DEF Thrown, ActType, Like

LEMMA RefusedIs ==
    ASSUME act \in ActType, NEW err \in {"none", "intercepts", "closed", "gone", "other"}
    PROVE  /\ Refused(err) \in ActType /\ Like(Refused(err)) /\ Refused(err).pc = "judge"
           /\ Refused(err).err = err /\ Refused(err).status = "not_dispatched"
           /\ Refused(err).answer = act.answer
<1>1. "judge" \in ClickPCs /\ "not_dispatched" \in Statuses
  BY DEF ClickPCs, Statuses
<1>2. QED
  BY <1>1 DEF Refused, ActType, Like

LEMMA StaleIs ==
    ASSUME act \in ActType
    PROVE  /\ Stale \in ActType /\ Like(Stale) /\ Stale.pc = "over" /\ Stale.err = "gone"
           /\ Stale.status = act.status /\ Stale.answer # "none"
           /\ Stale.answer = "proven" => control.via # "drive"
<1> DEFINE a == IF control.via = "drive" THEN "stale"
                ELSE IF act.phase = "prepared" THEN "proven" ELSE "error"
           r == [act EXCEPT !.pc = "over", !.err = "gone", !.answer = a]
<1>1. a \in {"stale", "proven", "error"} /\ (a = "proven" => control.via # "drive")
  OBVIOUS
<1>2. Stale = r
  BY DEF Stale
<1> HIDE DEF a
<1>3. r \in ActType /\ Like(r) /\ r.pc = "over" /\ r.err = "gone" /\ r.status = act.status
      /\ r.answer = a
 <2>1. "over" \in ClickPCs /\ a \in {"none", "ok", "proven", "stale", "error"}
   BY <1>1 DEF ClickPCs
 <2>2. r \in ActType
   BY <2>1, Zenon DEF ActType
 <2>3. QED
   BY <2>2 DEF Like
<1> HIDE DEF r
<1>4. QED
  BY <1>1, <1>2, <1>3

LEMMA TimedOutIs ==
    ASSUME act \in ActType, NEW n
    PROVE  /\ TimedOut(n) \in ActType /\ Like(TimedOut(n)) /\ TimedOut(n).pc = "restore"
           /\ TimedOut(n).status = act.status /\ TimedOut(n).answer = act.answer
<1> DEFINE e == IF page = "closed" THEN "closed"
                ELSE IF act.saw \/ Meets(n) = "covered" THEN "intercepts" ELSE "other"
<1>1. TimedOut(n) = Thrown(e)
  BY DEF TimedOut
<1>2. e \in {"none", "intercepts", "closed", "gone", "other"}
  OBVIOUS
<1> HIDE DEF e
<1>3. QED
  BY <1>1, <1>2, ThrownIs

LEMMA PressIs ==
    ASSUME ClickTypeOK, NEW n \in Nodes, NEW c \in ActType, Activates(n, c), c.heard = act.heard
    PROVE  /\ Pressed(n) /\ act' \in ActType /\ act'.pc = c.pc /\ act'.try = c.try
           /\ act'.bound = c.bound /\ act'.armed = c.armed /\ act'.aim = c.aim
           /\ act'.before = c.before
           /\ act'.err = c.err /\ act'.status = c.status /\ act'.answer = c.answer
BY DEF ClickTypeOK, Activates, ActType, Pressed

LEMMA PressingIs ==
    ASSUME act \in ActType
    PROVE  Pressing = IF Clicking THEN At("bind") ELSE At("js")
BY DEF Pressing, Clicking, ActType


LEMMA StartAt ==
    ASSUME ClickConstants, ClickTypeOK, Start
    PROVE  /\ act' \in ActType /\ SameTry /\ act.pc = "start"
           /\ UNCHANGED <<control, seen, names, fit, page, dialog, moves, inert, journal, errors>>
           /\ \/ /\ act'.pc = "resolve" /\ SameListener /\ SameAim /\ SameFate /\ Unpressed
              \/ /\ act'.pc = "over" /\ SameListener /\ SameAim /\ act'.err = "gone"
                 /\ act'.status = act.status /\ act'.answer # "none"
                 /\ (act'.answer = "proven" => control.via # "drive") /\ Unpressed
<1>1. /\ act \in ActType /\ shown \in Nat
      /\ {names, act.bound, act.aim} \subseteq Nodes \cup {"none"}
  BY DEF ClickTypeOK, ActType
<1>2. /\ act.pc = "start"
      /\ UNCHANGED <<control, seen, names, fit, page, dialog, moves, inert, journal, errors>>
  BY DEF Start, Quiet, Calm, scene, BySelector
<1>3. \/ /\ act' = At("resolve") /\ Untouched
      \/ /\ act' = Stale /\ Untouched
  BY <1>1 DEF Start, Goes, Untouched
<1>4. ASSUME act' = At("resolve"), Untouched
      PROVE  /\ act' \in ActType /\ SameTry /\ act'.pc = "resolve" /\ SameListener /\ SameAim
             /\ SameFate /\ Unpressed
 <2>1. At("resolve") \in ActType /\ Like(At("resolve"))
       /\ At("resolve").pc = "resolve" /\ At("resolve").err = act.err
       /\ At("resolve").status = act.status /\ At("resolve").answer = act.answer
   BY <1>1, AtIs DEF ClickPCs
 <2>2. QED
   BY <1>4, <2>1 DEF Like, Untouched, Unpressed, SameListener, SameAim, SameFate, SameTry
<1>5. ASSUME act' = Stale, Untouched
      PROVE  /\ act' \in ActType /\ SameTry /\ act'.pc = "over" /\ SameListener /\ SameAim
             /\ act'.err = "gone" /\ act'.status = act.status /\ act'.answer # "none"
             /\ (act'.answer = "proven" => control.via # "drive") /\ Unpressed
 <2>1. Stale \in ActType /\ Like(Stale)
       /\ Stale.pc = "over" /\ Stale.err = "gone" /\ Stale.status = act.status
       /\ Stale.answer # "none" /\ (Stale.answer = "proven" => control.via # "drive")
   BY <1>1, StaleIs DEF ClickPCs
 <2>2. QED
   BY <1>5, <2>1 DEF Like, Untouched, Unpressed, SameListener, SameAim, SameTry
<1>6. QED
  BY <1>2, <1>3, <1>4, <1>5

LEMMA ResolveAt ==
    ASSUME ClickConstants, ClickTypeOK, Resolve
    PROVE  /\ act' \in ActType /\ SameTry /\ act.pc = "resolve" /\ control.via # "locator"
           /\ UNCHANGED <<control, seen, names, fit, page, dialog, moves, inert, journal, errors>>
           /\ \/ /\ control.via = "drive" /\ act'.pc = "occlusion" /\ SameListener /\ SameAim
                 /\ SameFate /\ Unpressed
              \/ /\ control.via # "drive" /\ Clicking /\ act'.pc = "bind" /\ SameListener
                 /\ SameAim /\ SameFate /\ Unpressed
              \/ /\ control.via # "drive" /\ ~Clicking /\ act'.pc = "js" /\ SameListener
                 /\ SameAim /\ SameFate /\ Unpressed
              \/ /\ act'.pc = "over" /\ SameListener /\ SameAim /\ act'.err = "gone"
                 /\ act'.status = act.status /\ act'.answer # "none"
                 /\ (act'.answer = "proven" => control.via # "drive") /\ Unpressed
<1>1. /\ act \in ActType /\ shown \in Nat
      /\ {names, act.bound, act.aim} \subseteq Nodes \cup {"none"}
  BY DEF ClickTypeOK, ActType
<1>2. /\ act.pc = "resolve" /\ control.via # "locator"
      /\ UNCHANGED <<control, seen, names, fit, page, dialog, moves, inert, journal, errors>>
  BY DEF Resolve, Quiet, Calm, scene, BySelector
<1>3. \/ /\ control.via = "drive" /\ act' = At("occlusion") /\ Untouched
      \/ /\ control.via # "drive" /\ Clicking /\ act' = At("bind") /\ Untouched
      \/ /\ control.via # "drive" /\ ~Clicking /\ act' = At("js") /\ Untouched
      \/ /\ act' = Stale /\ Untouched
  BY <1>1, PressingIs DEF Resolve, Goes, Untouched
<1>4. ASSUME control.via = "drive", act' = At("occlusion"), Untouched
      PROVE  /\ act' \in ActType /\ SameTry /\ control.via = "drive" /\ act'.pc = "occlusion"
             /\ SameListener /\ SameAim /\ SameFate /\ Unpressed
 <2>1. At("occlusion") \in ActType /\ Like(At("occlusion"))
       /\ At("occlusion").pc = "occlusion" /\ At("occlusion").err = act.err
       /\ At("occlusion").status = act.status /\ At("occlusion").answer = act.answer
   BY <1>1, AtIs DEF ClickPCs
 <2>2. QED
   BY <1>4, <2>1 DEF Like, Untouched, Unpressed, SameListener, SameAim, SameFate, SameTry
<1>5. ASSUME control.via # "drive" /\ Clicking, act' = At("bind"), Untouched
      PROVE  /\ act' \in ActType /\ SameTry /\ control.via # "drive" /\ Clicking
             /\ act'.pc = "bind" /\ SameListener /\ SameAim /\ SameFate /\ Unpressed
 <2>1. At("bind") \in ActType /\ Like(At("bind"))
       /\ At("bind").pc = "bind" /\ At("bind").err = act.err
       /\ At("bind").status = act.status /\ At("bind").answer = act.answer
   BY <1>1, AtIs DEF ClickPCs
 <2>2. QED
   BY <1>5, <2>1 DEF Like, Untouched, Unpressed, SameListener, SameAim, SameFate, SameTry
<1>6. ASSUME control.via # "drive" /\ ~Clicking, act' = At("js"), Untouched
      PROVE  /\ act' \in ActType /\ SameTry /\ control.via # "drive" /\ ~Clicking
             /\ act'.pc = "js" /\ SameListener /\ SameAim /\ SameFate /\ Unpressed
 <2>1. At("js") \in ActType /\ Like(At("js"))
       /\ At("js").pc = "js" /\ At("js").err = act.err /\ At("js").status = act.status
       /\ At("js").answer = act.answer
   BY <1>1, AtIs DEF ClickPCs
 <2>2. QED
   BY <1>6, <2>1 DEF Like, Untouched, Unpressed, SameListener, SameAim, SameFate, SameTry
<1>7. ASSUME act' = Stale, Untouched
      PROVE  /\ act' \in ActType /\ SameTry /\ act'.pc = "over" /\ SameListener /\ SameAim
             /\ act'.err = "gone" /\ act'.status = act.status /\ act'.answer # "none"
             /\ (act'.answer = "proven" => control.via # "drive") /\ Unpressed
 <2>1. Stale \in ActType /\ Like(Stale)
       /\ Stale.pc = "over" /\ Stale.err = "gone" /\ Stale.status = act.status
       /\ Stale.answer # "none" /\ (Stale.answer = "proven" => control.via # "drive")
   BY <1>1, StaleIs DEF ClickPCs
 <2>2. QED
   BY <1>7, <2>1 DEF Like, Untouched, Unpressed, SameListener, SameAim, SameTry
<1>8. QED
  BY <1>2, <1>3, <1>4, <1>5, <1>6, <1>7

LEMMA ResolveLocatorAt ==
    ASSUME ClickConstants, ClickTypeOK, ResolveLocator
    PROVE  /\ act' \in ActType /\ SameTry /\ act.pc = "resolve" /\ control.via = "locator"
           /\ UNCHANGED <<control, seen, names, fit, page, dialog, moves, inert, journal, errors>>
           /\ \/ /\ act'.pc = "over" /\ SameListener /\ SameAim /\ act'.err = "gone"
                 /\ act'.status = act.status /\ act'.answer = "error" /\ Unpressed
              \/ /\ names \in Nodes /\ Clicking /\ act'.pc = "bind" /\ act'.armed = act.armed
                 /\ act'.bound = names /\ SameAim /\ SameFate /\ Unpressed
              \/ /\ names \in Nodes /\ ~Clicking /\ act'.pc = "js" /\ act'.armed = act.armed
                 /\ act'.bound = names /\ SameAim /\ SameFate /\ Unpressed
<1>1. /\ act \in ActType /\ shown \in Nat
      /\ {names, act.bound, act.aim} \subseteq Nodes \cup {"none"}
  BY DEF ClickTypeOK, ActType
<1>2. /\ act.pc = "resolve" /\ control.via = "locator"
      /\ UNCHANGED <<control, seen, names, fit, page, dialog, moves, inert, journal, errors>>
  BY DEF ResolveLocator, Quiet, Calm, scene, BySelector
<1>3. \/ /\ act' = [At("over") EXCEPT !.err = "gone", !.answer = "error"] /\ Untouched
      \/ /\ names \in Nodes /\ Clicking /\ act' = [At("bind") EXCEPT !.bound = names]
         /\ Untouched
      \/ /\ names \in Nodes /\ ~Clicking /\ act' = [At("js") EXCEPT !.bound = names]
         /\ Untouched
  BY <1>1, PressingIs DEF ResolveLocator, Goes, Untouched, Finished
<1>4. ASSUME act' = [At("over") EXCEPT !.err = "gone", !.answer = "error"], Untouched
      PROVE  /\ act' \in ActType /\ SameTry /\ act'.pc = "over" /\ SameListener /\ SameAim
             /\ act'.err = "gone" /\ act'.status = act.status /\ act'.answer = "error"
             /\ Unpressed
 <2> DEFINE r == [At("over") EXCEPT !.err = "gone", !.answer = "error"]
 <2>1. r \in ActType /\ r.heard = act.heard
       /\ r.pc = "over" /\ r.try = act.try /\ r.armed = act.armed /\ r.bound = act.bound
       /\ r.aim = act.aim /\ r.before = act.before /\ r.err = "gone" /\ r.status = act.status
       /\ r.answer = "error"
  <3>1. "over" \in ClickPCs /\ {"unknown", "not_dispatched"} \subseteq Statuses
    BY DEF ClickPCs, Statuses
  <3>2. QED
    BY <1>1, <3>1 DEF ActType, At, Thrown
 <2>2. act' = r
   BY <1>4
 <2> HIDE DEF r
 <2>3. QED
   BY <1>4, <2>1, <2>2 DEF Untouched, Unpressed, SameListener, SameAim, SameTry
<1>5. ASSUME names \in Nodes /\ Clicking, act' = [At("bind") EXCEPT !.bound = names],
             Untouched
      PROVE  /\ act' \in ActType /\ SameTry /\ names \in Nodes /\ Clicking /\ act'.pc = "bind"
             /\ act'.armed = act.armed /\ act'.bound = names /\ SameAim /\ SameFate
             /\ Unpressed
 <2> DEFINE r == [At("bind") EXCEPT !.bound = names]
 <2>1. r \in ActType /\ r.heard = act.heard
       /\ r.pc = "bind" /\ r.try = act.try /\ r.armed = act.armed /\ r.bound = names
       /\ r.aim = act.aim /\ r.before = act.before /\ r.err = act.err
       /\ r.status = act.status /\ r.answer = act.answer
  <3>1. "bind" \in ClickPCs /\ {"unknown", "not_dispatched"} \subseteq Statuses
    BY DEF ClickPCs, Statuses
  <3>2. QED
    BY <1>1, <3>1, <1>5 DEF ActType, At, Thrown
 <2>2. act' = r
   BY <1>5
 <2> HIDE DEF r
 <2>3. QED
   BY <1>5, <2>1, <2>2 DEF Untouched, Unpressed, SameAim, SameFate, SameTry
<1>6. ASSUME names \in Nodes /\ ~Clicking, act' = [At("js") EXCEPT !.bound = names],
             Untouched
      PROVE  /\ act' \in ActType /\ SameTry /\ names \in Nodes /\ ~Clicking /\ act'.pc = "js"
             /\ act'.armed = act.armed /\ act'.bound = names /\ SameAim /\ SameFate
             /\ Unpressed
 <2> DEFINE r == [At("js") EXCEPT !.bound = names]
 <2>1. r \in ActType /\ r.heard = act.heard
       /\ r.pc = "js" /\ r.try = act.try /\ r.armed = act.armed /\ r.bound = names
       /\ r.aim = act.aim /\ r.before = act.before /\ r.err = act.err
       /\ r.status = act.status /\ r.answer = act.answer
  <3>1. "js" \in ClickPCs /\ {"unknown", "not_dispatched"} \subseteq Statuses
    BY DEF ClickPCs, Statuses
  <3>2. QED
    BY <1>1, <3>1, <1>6 DEF ActType, At, Thrown
 <2>2. act' = r
   BY <1>6
 <2> HIDE DEF r
 <2>3. QED
   BY <1>6, <2>1, <2>2 DEF Untouched, Unpressed, SameAim, SameFate, SameTry
<1>7. QED
  BY <1>2, <1>3, <1>4, <1>5, <1>6

LEMMA OcclusionAt ==
    ASSUME ClickConstants, ClickTypeOK, Occlusion
    PROVE  /\ act' \in ActType /\ SameTry /\ act.pc = "occlusion"
           /\ UNCHANGED <<control, seen, names, fit, page, dialog, moves, inert, journal, errors>>
           /\ \/ /\ act'.pc = "judge" /\ SameListener /\ SameAim /\ act'.err = "intercepts"
                 /\ act'.status = "not_dispatched" /\ act'.answer = act.answer /\ Unpressed
              \/ /\ control.is = "option" /\ act'.pc = "option" /\ SameListener /\ SameAim
                 /\ SameFate /\ Unpressed
              \/ /\ act'.pc = "bind" /\ SameListener /\ SameAim /\ SameFate /\ Unpressed
<1>1. /\ act \in ActType /\ shown \in Nat
      /\ {names, act.bound, act.aim} \subseteq Nodes \cup {"none"}
  BY DEF ClickTypeOK, ActType
<1>2. /\ act.pc = "occlusion"
      /\ UNCHANGED <<control, seen, names, fit, page, dialog, moves, inert, journal, errors>>
  BY DEF Occlusion, Quiet, Calm, scene, BySelector
<1>3. \/ /\ act' = Refused("intercepts") /\ Untouched
      \/ /\ control.is = "option" /\ act' = At("option") /\ Untouched
      \/ /\ act' = At("bind") /\ Untouched
  BY <1>1 DEF Occlusion, Goes, Untouched
<1>4. ASSUME act' = Refused("intercepts"), Untouched
      PROVE  /\ act' \in ActType /\ SameTry /\ act'.pc = "judge" /\ SameListener /\ SameAim
             /\ act'.err = "intercepts" /\ act'.status = "not_dispatched"
             /\ act'.answer = act.answer /\ Unpressed
 <2>1. Refused("intercepts") \in ActType /\ Like(Refused("intercepts"))
       /\ Refused("intercepts").pc = "judge" /\ Refused("intercepts").err = "intercepts"
       /\ Refused("intercepts").status = "not_dispatched"
       /\ Refused("intercepts").answer = act.answer
   BY <1>1, RefusedIs DEF ClickPCs
 <2>2. QED
   BY <1>4, <2>1 DEF Like, Untouched, Unpressed, SameListener, SameAim, SameTry
<1>5. ASSUME control.is = "option", act' = At("option"), Untouched
      PROVE  /\ act' \in ActType /\ SameTry /\ control.is = "option" /\ act'.pc = "option"
             /\ SameListener /\ SameAim /\ SameFate /\ Unpressed
 <2>1. At("option") \in ActType /\ Like(At("option"))
       /\ At("option").pc = "option" /\ At("option").err = act.err
       /\ At("option").status = act.status /\ At("option").answer = act.answer
   BY <1>1, AtIs DEF ClickPCs
 <2>2. QED
   BY <1>5, <2>1 DEF Like, Untouched, Unpressed, SameListener, SameAim, SameFate, SameTry
<1>6. ASSUME act' = At("bind"), Untouched
      PROVE  /\ act' \in ActType /\ SameTry /\ act'.pc = "bind" /\ SameListener /\ SameAim
             /\ SameFate /\ Unpressed
 <2>1. At("bind") \in ActType /\ Like(At("bind"))
       /\ At("bind").pc = "bind" /\ At("bind").err = act.err
       /\ At("bind").status = act.status /\ At("bind").answer = act.answer
   BY <1>1, AtIs DEF ClickPCs
 <2>2. QED
   BY <1>6, <2>1 DEF Like, Untouched, Unpressed, SameListener, SameAim, SameFate, SameTry
<1>7. QED
  BY <1>2, <1>3, <1>4, <1>5, <1>6

LEMMA OptionAt ==
    ASSUME ClickConstants, ClickTypeOK, Option
    PROVE  /\ act' \in ActType /\ SameTry /\ act.pc = "option"
           /\ UNCHANGED <<control, seen, names, fit, page, dialog, moves, inert, journal, errors>>
           /\ \/ /\ act'.pc = "enter" /\ SameListener /\ act'.aim = act.aim
                 /\ act'.before = shown /\ SameFate /\ (\E n \in Nodes : Pressed(n))
              \/ /\ act'.pc = "bind" /\ SameListener /\ SameAim /\ SameFate /\ Unpressed
<1>1. /\ act \in ActType /\ shown \in Nat
      /\ {names, act.bound, act.aim} \subseteq Nodes \cup {"none"}
  BY DEF ClickTypeOK, ActType
<1>2. /\ act.pc = "option"
      /\ UNCHANGED <<control, seen, names, fit, page, dialog, moves, inert, journal, errors>>
  BY DEF Option, Quiet, Calm, scene, BySelector
<1>3. \/ /\ (\E n \in Nodes : Activates(n, [At("enter") EXCEPT !.before = shown]))
      \/ /\ act' = At("bind") /\ Untouched
  BY <1>1 DEF Option, Goes, Untouched, Meets
<1>4. ASSUME NEW n \in Nodes, Activates(n, [At("enter") EXCEPT !.before = shown])
      PROVE  /\ act' \in ActType /\ SameTry /\ act'.pc = "enter" /\ SameListener
             /\ act'.aim = act.aim /\ act'.before = shown /\ SameFate /\ Pressed(n)
 <2> DEFINE r == [At("enter") EXCEPT !.before = shown]
 <2>1. r \in ActType /\ r.heard = act.heard
       /\ r.pc = "enter" /\ r.try = act.try /\ r.armed = act.armed /\ r.bound = act.bound
       /\ r.aim = act.aim /\ r.before = shown /\ r.err = act.err /\ r.status = act.status
       /\ r.answer = act.answer
  <3>1. "enter" \in ClickPCs /\ {"unknown", "not_dispatched"} \subseteq Statuses
    BY DEF ClickPCs, Statuses
  <3>2. QED
    BY <1>1, <3>1 DEF ActType, At, Thrown
 <2>2. Activates(n, r)
   BY <1>4
 <2> HIDE DEF r
 <2>3. QED
   BY <1>4, <2>1, <2>2, PressIs DEF SameListener, SameFate, SameTry
<1>5. ASSUME act' = At("bind"), Untouched
      PROVE  /\ act' \in ActType /\ SameTry /\ act'.pc = "bind" /\ SameListener /\ SameAim
             /\ SameFate /\ Unpressed
 <2>1. At("bind") \in ActType /\ Like(At("bind"))
       /\ At("bind").pc = "bind" /\ At("bind").err = act.err
       /\ At("bind").status = act.status /\ At("bind").answer = act.answer
   BY <1>1, AtIs DEF ClickPCs
 <2>2. QED
   BY <1>5, <2>1 DEF Like, Untouched, Unpressed, SameListener, SameAim, SameFate, SameTry
<1>6. QED
  BY <1>2, <1>3, <1>4, <1>5

LEMMA OptionEntersAt ==
    ASSUME ClickConstants, ClickTypeOK, OptionEnters
    PROVE  /\ act' \in ActType /\ SameTry /\ act.pc \in {"enter", "filter"}
           /\ UNCHANGED <<control, seen, names, fit, page, dialog, moves, inert, journal>>
           /\ \/ /\ errors' = errors /\ act'.pc = "over" /\ SameListener /\ SameAim
                 /\ SameFate /\ Unpressed
              \/ /\ shown = act.before /\ errors' = errors /\ act'.pc = "filter"
                 /\ SameListener /\ SameAim /\ SameFate /\ Unpressed
              \/ /\ shown = act.before /\ errors' = errors /\ act'.pc = "filter"
                 /\ SameListener /\ SameAim /\ SameFate /\ (\E n \in Nodes : Pressed(n))
              \/ /\ shown = act.before /\ errors' = errors /\ act'.pc = "over" /\ SameListener
                 /\ SameAim /\ SameFate /\ (\E n \in Nodes : Pressed(n))
              \/ /\ errors' = errors + 1 /\ errors < MaxErrors /\ act'.pc = "bind"
                 /\ SameListener /\ SameAim /\ SameFate /\ Unpressed
<1>1. /\ act \in ActType /\ shown \in Nat
      /\ {names, act.bound, act.aim} \subseteq Nodes \cup {"none"}
  BY DEF ClickTypeOK, ActType
<1>2. /\ act.pc \in {"enter", "filter"}
      /\ UNCHANGED <<control, seen, names, fit, page, dialog, moves, inert, journal>>
  BY DEF OptionEnters, Quiet, Calm, scene, BySelector
<1>3. \/ /\ errors' = errors /\ act' = At("over") /\ Untouched
      \/ /\ shown = act.before /\ errors' = errors /\ act' = At("filter") /\ Untouched
      \/ /\ shown = act.before /\ errors' = errors
         /\ (\E n \in Nodes : Activates(n, At("filter")))
      \/ /\ shown = act.before /\ errors' = errors
         /\ (\E n \in Nodes : Activates(n, At("over")))
      \/ /\ errors' = errors + 1 /\ errors < MaxErrors /\ act' = At("bind") /\ Untouched
  BY <1>1 DEF OptionEnters, Goes, Untouched, Finished, Errs
<1>4. ASSUME errors' = errors, act' = At("over"), Untouched
      PROVE  /\ act' \in ActType /\ SameTry /\ errors' = errors /\ act'.pc = "over"
             /\ SameListener /\ SameAim /\ SameFate /\ Unpressed
 <2>1. At("over") \in ActType /\ Like(At("over"))
       /\ At("over").pc = "over" /\ At("over").err = act.err
       /\ At("over").status = act.status /\ At("over").answer = act.answer
   BY <1>1, AtIs DEF ClickPCs
 <2>2. QED
   BY <1>4, <2>1 DEF Like, Untouched, Unpressed, SameListener, SameAim, SameFate, SameTry
<1>5. ASSUME shown = act.before /\ errors' = errors, act' = At("filter"), Untouched
      PROVE  /\ act' \in ActType /\ SameTry /\ shown = act.before /\ errors' = errors
             /\ act'.pc = "filter" /\ SameListener /\ SameAim /\ SameFate /\ Unpressed
 <2>1. At("filter") \in ActType /\ Like(At("filter"))
       /\ At("filter").pc = "filter" /\ At("filter").err = act.err
       /\ At("filter").status = act.status /\ At("filter").answer = act.answer
   BY <1>1, AtIs DEF ClickPCs
 <2>2. QED
   BY <1>5, <2>1 DEF Like, Untouched, Unpressed, SameListener, SameAim, SameFate, SameTry
<1>6. ASSUME shown = act.before /\ errors' = errors, NEW n \in Nodes, Activates(n,
             At("filter"))
      PROVE  /\ act' \in ActType /\ SameTry /\ shown = act.before /\ errors' = errors
             /\ act'.pc = "filter" /\ SameListener /\ SameAim /\ SameFate /\ Pressed(n)
 <2>1. At("filter") \in ActType /\ Like(At("filter"))
       /\ At("filter").pc = "filter" /\ At("filter").err = act.err
       /\ At("filter").status = act.status /\ At("filter").answer = act.answer
   BY <1>1, AtIs DEF ClickPCs
 <2>2. QED
   BY <1>6, <2>1, PressIs DEF Like, SameListener, SameAim, SameFate, SameTry
<1>7. ASSUME shown = act.before /\ errors' = errors, NEW n \in Nodes, Activates(n,
             At("over"))
      PROVE  /\ act' \in ActType /\ SameTry /\ shown = act.before /\ errors' = errors
             /\ act'.pc = "over" /\ SameListener /\ SameAim /\ SameFate /\ Pressed(n)
 <2>1. At("over") \in ActType /\ Like(At("over"))
       /\ At("over").pc = "over" /\ At("over").err = act.err
       /\ At("over").status = act.status /\ At("over").answer = act.answer
   BY <1>1, AtIs DEF ClickPCs
 <2>2. QED
   BY <1>7, <2>1, PressIs DEF Like, SameListener, SameAim, SameFate, SameTry
<1>8. ASSUME errors' = errors + 1 /\ errors < MaxErrors, act' = At("bind"), Untouched
      PROVE  /\ act' \in ActType /\ SameTry /\ errors' = errors + 1 /\ errors < MaxErrors
             /\ act'.pc = "bind" /\ SameListener /\ SameAim /\ SameFate /\ Unpressed
 <2>1. At("bind") \in ActType /\ Like(At("bind"))
       /\ At("bind").pc = "bind" /\ At("bind").err = act.err
       /\ At("bind").status = act.status /\ At("bind").answer = act.answer
   BY <1>1, AtIs DEF ClickPCs
 <2>2. QED
   BY <1>8, <2>1 DEF Like, Untouched, Unpressed, SameListener, SameAim, SameFate, SameTry
<1>9. QED
  BY <1>2, <1>3, <1>4, <1>5, <1>6, <1>7, <1>8

LEMMA BindAt ==
    ASSUME ClickConstants, ClickTypeOK, Bind
    PROVE  /\ act' \in ActType /\ SameTry /\ act.pc = "bind"
           /\ UNCHANGED <<control, seen, names, fit, page, dialog, moves, inert, journal, errors>>
           /\ \/ /\ ~Listening /\ act'.pc = "press" /\ SameListener /\ SameAim /\ SameFate
                 /\ Unpressed
              \/ /\ act'.pc = "judge" /\ SameListener /\ SameAim /\ act'.err = "gone"
                 /\ act'.status = "not_dispatched" /\ act'.answer = act.answer /\ Unpressed
              \/ /\ Listening /\ Handle \in Nodes /\ act'.pc = "mark"
                 /\ act'.armed = act.armed /\ act'.bound = Handle /\ SameAim /\ SameFate
                 /\ Unpressed
<1>1. /\ act \in ActType /\ shown \in Nat
      /\ {names, act.bound, act.aim} \subseteq Nodes \cup {"none"}
  BY DEF ClickTypeOK, ActType
<1>2. /\ act.pc = "bind"
      /\ UNCHANGED <<control, seen, names, fit, page, dialog, moves, inert, journal, errors>>
  BY DEF Bind, Quiet, Calm, scene, BySelector
<1>3. \/ /\ ~Listening /\ act' = At("press") /\ Untouched
      \/ /\ act' = Refused("gone") /\ Untouched
      \/ /\ Listening /\ Handle \in Nodes /\ act' = [At("mark") EXCEPT !.bound = Handle]
         /\ Untouched
  BY <1>1 DEF Bind, Goes, Untouched, Handle
<1>4. ASSUME ~Listening, act' = At("press"), Untouched
      PROVE  /\ act' \in ActType /\ SameTry /\ ~Listening /\ act'.pc = "press" /\ SameListener
             /\ SameAim /\ SameFate /\ Unpressed
 <2>1. At("press") \in ActType /\ Like(At("press"))
       /\ At("press").pc = "press" /\ At("press").err = act.err
       /\ At("press").status = act.status /\ At("press").answer = act.answer
   BY <1>1, AtIs DEF ClickPCs
 <2>2. QED
   BY <1>4, <2>1 DEF Like, Untouched, Unpressed, SameListener, SameAim, SameFate, SameTry
<1>5. ASSUME act' = Refused("gone"), Untouched
      PROVE  /\ act' \in ActType /\ SameTry /\ act'.pc = "judge" /\ SameListener /\ SameAim
             /\ act'.err = "gone" /\ act'.status = "not_dispatched"
             /\ act'.answer = act.answer /\ Unpressed
 <2>1. Refused("gone") \in ActType /\ Like(Refused("gone"))
       /\ Refused("gone").pc = "judge" /\ Refused("gone").err = "gone"
       /\ Refused("gone").status = "not_dispatched" /\ Refused("gone").answer = act.answer
   BY <1>1, RefusedIs DEF ClickPCs
 <2>2. QED
   BY <1>5, <2>1 DEF Like, Untouched, Unpressed, SameListener, SameAim, SameTry
<1>6. ASSUME Listening /\ Handle \in Nodes, act' = [At("mark") EXCEPT !.bound = Handle],
             Untouched
      PROVE  /\ act' \in ActType /\ SameTry /\ Listening /\ Handle \in Nodes
             /\ act'.pc = "mark" /\ act'.armed = act.armed /\ act'.bound = Handle /\ SameAim
             /\ SameFate /\ Unpressed
 <2> DEFINE r == [At("mark") EXCEPT !.bound = Handle]
 <2>1. r \in ActType /\ r.heard = act.heard
       /\ r.pc = "mark" /\ r.try = act.try /\ r.armed = act.armed /\ r.bound = Handle
       /\ r.aim = act.aim /\ r.before = act.before /\ r.err = act.err
       /\ r.status = act.status /\ r.answer = act.answer
  <3>1. "mark" \in ClickPCs /\ {"unknown", "not_dispatched"} \subseteq Statuses
    BY DEF ClickPCs, Statuses
  <3>2. QED
    BY <1>1, <3>1, <1>6 DEF ActType, At, Thrown
 <2>2. act' = r
   BY <1>6
 <2> HIDE DEF r
 <2>3. QED
   BY <1>6, <2>1, <2>2 DEF Untouched, Unpressed, SameAim, SameFate, SameTry
<1>7. QED
  BY <1>2, <1>3, <1>4, <1>5, <1>6

LEMMA MarkAt ==
    ASSUME ClickConstants, ClickTypeOK, Mark
    PROVE  /\ act' \in ActType /\ SameTry /\ act.pc = "mark"
           /\ UNCHANGED <<control, seen, names, fit, page, dialog, moves, inert, errors>>
           /\ \/ /\ journal' = journal /\ act'.pc = "judge" /\ SameListener /\ SameAim
                 /\ act'.err = "other" /\ act'.status = "unknown" /\ act'.answer = act.answer
                 /\ Unpressed
              \/ /\ journal' = "attempted" /\ act'.pc = "listen" /\ SameListener /\ SameAim
                 /\ SameFate /\ Unpressed
<1>1. /\ act \in ActType /\ shown \in Nat
      /\ {names, act.bound, act.aim} \subseteq Nodes \cup {"none"}
  BY DEF ClickTypeOK, ActType
<1>2. /\ act.pc = "mark"
      /\ UNCHANGED <<control, seen, names, fit, page, dialog, moves, inert, errors>>
  BY DEF Mark, Quiet, Calm, scene, BySelector
<1>3. \/ /\ journal' = journal
         /\ act' = [act EXCEPT !.pc = "judge", !.err = "other", !.status = "unknown"]
         /\ Untouched
      \/ /\ journal' = "attempted" /\ act' = [At("listen") EXCEPT !.phase = "attempted"]
         /\ Untouched
  BY <1>1 DEF Mark, Goes, Untouched
<1>4. ASSUME journal' = journal, act' = [act EXCEPT !.pc = "judge", !.err = "other",
             !.status = "unknown"], Untouched
      PROVE  /\ act' \in ActType /\ SameTry /\ journal' = journal /\ act'.pc = "judge"
             /\ SameListener /\ SameAim /\ act'.err = "other" /\ act'.status = "unknown"
             /\ act'.answer = act.answer /\ Unpressed
 <2> DEFINE r == [act EXCEPT !.pc = "judge", !.err = "other", !.status = "unknown"]
 <2>1. r \in ActType /\ r.heard = act.heard
       /\ r.pc = "judge" /\ r.try = act.try /\ r.armed = act.armed /\ r.bound = act.bound
       /\ r.aim = act.aim /\ r.before = act.before /\ r.err = "other" /\ r.status = "unknown"
       /\ r.answer = act.answer
  <3>1. "judge" \in ClickPCs /\ {"unknown", "not_dispatched"} \subseteq Statuses
    BY DEF ClickPCs, Statuses
  <3>2. QED
    BY <1>1, <3>1, <1>4 DEF ActType, At, Thrown
 <2>2. act' = r
   BY <1>4
 <2> HIDE DEF r
 <2>3. QED
   BY <1>4, <2>1, <2>2 DEF Untouched, Unpressed, SameListener, SameAim, SameTry
<1>5. ASSUME journal' = "attempted", act' = [At("listen") EXCEPT !.phase = "attempted"],
             Untouched
      PROVE  /\ act' \in ActType /\ SameTry /\ journal' = "attempted" /\ act'.pc = "listen"
             /\ SameListener /\ SameAim /\ SameFate /\ Unpressed
 <2> DEFINE r == [At("listen") EXCEPT !.phase = "attempted"]
 <2>1. r \in ActType /\ r.heard = act.heard
       /\ r.pc = "listen" /\ r.try = act.try /\ r.armed = act.armed /\ r.bound = act.bound
       /\ r.aim = act.aim /\ r.before = act.before /\ r.err = act.err
       /\ r.status = act.status /\ r.answer = act.answer
  <3>1. "listen" \in ClickPCs /\ {"unknown", "not_dispatched"} \subseteq Statuses
    BY DEF ClickPCs, Statuses
  <3>2. QED
    BY <1>1, <3>1, <1>5 DEF ActType, At, Thrown
 <2>2. act' = r
   BY <1>5
 <2> HIDE DEF r
 <2>3. QED
   BY <1>5, <2>1, <2>2 DEF Untouched, Unpressed, SameListener, SameAim, SameFate, SameTry
<1>6. QED
  BY <1>2, <1>3, <1>4, <1>5

LEMMA ListenAt ==
    ASSUME ClickConstants, ClickTypeOK, Listen
    PROVE  /\ act' \in ActType /\ SameTry /\ act.pc = "listen"
           /\ UNCHANGED <<control, seen, names, fit, page, dialog, moves, inert, journal, errors>>
           /\ \/ /\ act'.pc = "judge" /\ SameListener /\ SameAim /\ act'.err = "other"
                 /\ act'.status = "unknown" /\ act'.answer = act.answer /\ Unpressed
              \/ /\ control.via = "locator" /\ act'.pc = "press"
                 /\ act'.armed = (page = "live") /\ act'.bound = act.bound /\ SameAim
                 /\ SameFate /\ Unpressed
              \/ /\ control.via # "locator" /\ act'.pc = "lift"
                 /\ act'.armed = (page = "live") /\ act'.bound = act.bound /\ SameAim
                 /\ SameFate /\ Unpressed
<1>1. /\ act \in ActType /\ shown \in Nat
      /\ {names, act.bound, act.aim} \subseteq Nodes \cup {"none"}
  BY DEF ClickTypeOK, ActType
<1>2. /\ act.pc = "listen"
      /\ UNCHANGED <<control, seen, names, fit, page, dialog, moves, inert, journal, errors>>
  BY DEF Listen, Quiet, Calm, scene, BySelector
<1>3. \/ /\ act' = [act EXCEPT !.pc = "judge", !.err = "other", !.status = "unknown"]
         /\ Untouched
      \/ /\ control.via = "locator" /\ act' = [At("press") EXCEPT !.armed = (page = "live")]
         /\ Untouched
      \/ /\ control.via # "locator" /\ act' = [At("lift") EXCEPT !.armed = (page = "live")]
         /\ Untouched
  BY <1>1 DEF Listen, Goes, Untouched
<1>4. ASSUME act' = [act EXCEPT !.pc = "judge", !.err = "other", !.status = "unknown"],
             Untouched
      PROVE  /\ act' \in ActType /\ SameTry /\ act'.pc = "judge" /\ SameListener /\ SameAim
             /\ act'.err = "other" /\ act'.status = "unknown" /\ act'.answer = act.answer
             /\ Unpressed
 <2> DEFINE r == [act EXCEPT !.pc = "judge", !.err = "other", !.status = "unknown"]
 <2>1. r \in ActType /\ r.heard = act.heard
       /\ r.pc = "judge" /\ r.try = act.try /\ r.armed = act.armed /\ r.bound = act.bound
       /\ r.aim = act.aim /\ r.before = act.before /\ r.err = "other" /\ r.status = "unknown"
       /\ r.answer = act.answer
  <3>1. "judge" \in ClickPCs /\ {"unknown", "not_dispatched"} \subseteq Statuses
    BY DEF ClickPCs, Statuses
  <3>2. QED
    BY <1>1, <3>1 DEF ActType, At, Thrown
 <2>2. act' = r
   BY <1>4
 <2> HIDE DEF r
 <2>3. QED
   BY <1>4, <2>1, <2>2 DEF Untouched, Unpressed, SameListener, SameAim, SameTry
<1>5. ASSUME control.via = "locator", act' = [At("press") EXCEPT !.armed = (page = "live")],
             Untouched
      PROVE  /\ act' \in ActType /\ SameTry /\ control.via = "locator" /\ act'.pc = "press"
             /\ act'.armed = (page = "live") /\ act'.bound = act.bound /\ SameAim /\ SameFate
             /\ Unpressed
 <2> DEFINE r == [At("press") EXCEPT !.armed = (page = "live")]
 <2>1. r \in ActType /\ r.heard = act.heard
       /\ r.pc = "press" /\ r.try = act.try /\ r.armed = (page = "live")
       /\ r.bound = act.bound /\ r.aim = act.aim /\ r.before = act.before /\ r.err = act.err
       /\ r.status = act.status /\ r.answer = act.answer
  <3>1. "press" \in ClickPCs /\ {"unknown", "not_dispatched"} \subseteq Statuses
    BY DEF ClickPCs, Statuses
  <3>2. QED
    BY <1>1, <3>1, <1>5 DEF ActType, At, Thrown
 <2>2. act' = r
   BY <1>5
 <2> HIDE DEF r
 <2>3. QED
   BY <1>5, <2>1, <2>2 DEF Untouched, Unpressed, SameAim, SameFate, SameTry
<1>6. ASSUME control.via # "locator", act' = [At("lift") EXCEPT !.armed = (page = "live")],
             Untouched
      PROVE  /\ act' \in ActType /\ SameTry /\ control.via # "locator" /\ act'.pc = "lift"
             /\ act'.armed = (page = "live") /\ act'.bound = act.bound /\ SameAim /\ SameFate
             /\ Unpressed
 <2> DEFINE r == [At("lift") EXCEPT !.armed = (page = "live")]
 <2>1. r \in ActType /\ r.heard = act.heard
       /\ r.pc = "lift" /\ r.try = act.try /\ r.armed = (page = "live")
       /\ r.bound = act.bound /\ r.aim = act.aim /\ r.before = act.before /\ r.err = act.err
       /\ r.status = act.status /\ r.answer = act.answer
  <3>1. "lift" \in ClickPCs /\ {"unknown", "not_dispatched"} \subseteq Statuses
    BY DEF ClickPCs, Statuses
  <3>2. QED
    BY <1>1, <3>1, <1>6 DEF ActType, At, Thrown
 <2>2. act' = r
   BY <1>6
 <2> HIDE DEF r
 <2>3. QED
   BY <1>6, <2>1, <2>2 DEF Untouched, Unpressed, SameAim, SameFate, SameTry
<1>7. QED
  BY <1>2, <1>3, <1>4, <1>5, <1>6

LEMMA LiftAt ==
    ASSUME ClickConstants, ClickTypeOK, Lift
    PROVE  /\ act' \in ActType /\ SameTry /\ act.pc = "lift"
           /\ UNCHANGED <<control, seen, names, fit, page, dialog, moves, journal, errors>>
           /\ inert' \in {inert, "lifted"} /\ (inert' # inert => inert = "set")
           /\ act'.pc = "press" /\ SameListener /\ SameAim /\ SameFate /\ Unpressed
<1>1. /\ act \in ActType /\ shown \in Nat
      /\ {names, act.bound, act.aim} \subseteq Nodes \cup {"none"}
  BY DEF ClickTypeOK, ActType
<1>2. /\ act.pc = "lift"
      /\ UNCHANGED <<control, seen, names, fit, page, dialog, moves, journal, errors>>
  BY DEF Lift, Quiet, Calm, scene, BySelector
<1>3. /\ inert' \in {inert, "lifted"} /\ (inert' # inert => inert = "set")
      /\ act' = At("press") /\ Untouched
  BY <1>1 DEF Lift, Goes, Untouched
<1>4. ASSUME inert' \in {inert, "lifted"} /\ (inert' # inert => inert = "set"), act' =
             At("press"), Untouched
      PROVE  /\ act' \in ActType /\ SameTry
             /\ inert' \in {inert, "lifted"} /\ (inert' # inert => inert = "set")
             /\ act'.pc = "press" /\ SameListener /\ SameAim /\ SameFate /\ Unpressed
 <2>1. At("press") \in ActType /\ Like(At("press"))
       /\ At("press").pc = "press" /\ At("press").err = act.err
       /\ At("press").status = act.status /\ At("press").answer = act.answer
   BY <1>1, AtIs DEF ClickPCs
 <2>2. QED
   BY <1>4, <2>1 DEF Like, Untouched, Unpressed, SameListener, SameAim, SameFate, SameTry
<1>5. QED
  BY <1>2, <1>3, <1>4

LEMMA HandlePressAt ==
    ASSUME ClickConstants, ClickTypeOK, HandlePress
    PROVE  /\ act' \in ActType /\ SameTry /\ act.pc = "press" /\ control.via = "locator"
           /\ UNCHANGED <<control, seen, names, fit, page, dialog, moves, inert, journal, errors>>
           /\ \/ /\ act'.pc = "restore" /\ SameListener /\ SameAim /\ act'.status = act.status
                 /\ act'.answer = act.answer /\ Unpressed
              \/ /\ act'.pc = "restore" /\ SameListener /\ SameAim /\ act'.err = "gone"
                 /\ act'.status = "not_dispatched" /\ act'.answer = act.answer /\ Unpressed
              \/ /\ act'.pc = "strike" /\ SameListener /\ act'.aim = act.bound
                 /\ act'.before = act.before /\ SameFate /\ Unpressed
<1>1. /\ act \in ActType /\ shown \in Nat
      /\ {names, act.bound, act.aim} \subseteq Nodes \cup {"none"}
  BY DEF ClickTypeOK, ActType
<1>2. /\ act.pc = "press" /\ control.via = "locator"
      /\ UNCHANGED <<control, seen, names, fit, page, dialog, moves, inert, journal, errors>>
  BY DEF HandlePress, Quiet, Calm, scene, BySelector
<1>3. \/ /\ act' = TimedOut("none") /\ Untouched
      \/ /\ act' = [Thrown("gone") EXCEPT !.status = "not_dispatched"] /\ Untouched
      \/ /\ act' = [At("strike") EXCEPT !.aim = act.bound] /\ Untouched
  BY <1>1 DEF HandlePress, Goes, Untouched
<1>4. ASSUME act' = TimedOut("none"), Untouched
      PROVE  /\ act' \in ActType /\ SameTry /\ act'.pc = "restore" /\ SameListener /\ SameAim
             /\ act'.status = act.status /\ act'.answer = act.answer /\ Unpressed
 <2>1. TimedOut("none") \in ActType /\ Like(TimedOut("none"))
       /\ TimedOut("none").pc = "restore" /\ TimedOut("none").status = act.status
       /\ TimedOut("none").answer = act.answer
   BY <1>1, TimedOutIs DEF ClickPCs
 <2>2. QED
   BY <1>4, <2>1 DEF Like, Untouched, Unpressed, SameListener, SameAim, SameTry
<1>5. ASSUME act' = [Thrown("gone") EXCEPT !.status = "not_dispatched"], Untouched
      PROVE  /\ act' \in ActType /\ SameTry /\ act'.pc = "restore" /\ SameListener /\ SameAim
             /\ act'.err = "gone" /\ act'.status = "not_dispatched"
             /\ act'.answer = act.answer /\ Unpressed
 <2> DEFINE r == [Thrown("gone") EXCEPT !.status = "not_dispatched"]
 <2>1. r \in ActType /\ r.heard = act.heard
       /\ r.pc = "restore" /\ r.try = act.try /\ r.armed = act.armed /\ r.bound = act.bound
       /\ r.aim = act.aim /\ r.before = act.before /\ r.err = "gone"
       /\ r.status = "not_dispatched" /\ r.answer = act.answer
  <3>1. "restore" \in ClickPCs /\ {"unknown", "not_dispatched"} \subseteq Statuses
    BY DEF ClickPCs, Statuses
  <3>2. QED
    BY <1>1, <3>1 DEF ActType, At, Thrown
 <2>2. act' = r
   BY <1>5
 <2> HIDE DEF r
 <2>3. QED
   BY <1>5, <2>1, <2>2 DEF Untouched, Unpressed, SameListener, SameAim, SameTry
<1>6. ASSUME act' = [At("strike") EXCEPT !.aim = act.bound], Untouched
      PROVE  /\ act' \in ActType /\ SameTry /\ act'.pc = "strike" /\ SameListener
             /\ act'.aim = act.bound /\ act'.before = act.before /\ SameFate /\ Unpressed
 <2> DEFINE r == [At("strike") EXCEPT !.aim = act.bound]
 <2>1. r \in ActType /\ r.heard = act.heard
       /\ r.pc = "strike" /\ r.try = act.try /\ r.armed = act.armed /\ r.bound = act.bound
       /\ r.aim = act.bound /\ r.before = act.before /\ r.err = act.err
       /\ r.status = act.status /\ r.answer = act.answer
  <3>1. "strike" \in ClickPCs /\ {"unknown", "not_dispatched"} \subseteq Statuses
    BY DEF ClickPCs, Statuses
  <3>2. QED
    BY <1>1, <3>1 DEF ActType, At, Thrown
 <2>2. act' = r
   BY <1>6
 <2> HIDE DEF r
 <2>3. QED
   BY <1>6, <2>1, <2>2 DEF Untouched, Unpressed, SameListener, SameFate, SameTry
<1>7. QED
  BY <1>2, <1>3, <1>4, <1>5, <1>6

LEMMA FramePressAt ==
    ASSUME ClickConstants, ClickTypeOK, FramePress
    PROVE  /\ act' \in ActType /\ SameTry /\ act.pc = "press" /\ control.via = "frame"
           /\ UNCHANGED <<control, seen, names, fit, page, dialog, moves, inert, journal, errors>>
           /\ \/ /\ act'.pc = "restore" /\ SameListener /\ SameAim /\ act'.err = "gone"
                 /\ act'.status = act.status /\ act'.answer = act.answer /\ Unpressed
              \/ /\ act'.pc = "strike" /\ SameListener /\ act'.aim = names
                 /\ act'.before = act.before /\ SameFate /\ Unpressed
<1>1. /\ act \in ActType /\ shown \in Nat
      /\ {names, act.bound, act.aim} \subseteq Nodes \cup {"none"}
  BY DEF ClickTypeOK, ActType
<1>2. /\ act.pc = "press" /\ control.via = "frame"
      /\ UNCHANGED <<control, seen, names, fit, page, dialog, moves, inert, journal, errors>>
  BY DEF FramePress, Quiet, Calm, scene, BySelector
<1>3. \/ /\ act' = Thrown("gone") /\ Untouched
      \/ /\ act' = [At("strike") EXCEPT !.aim = names] /\ Untouched
  BY <1>1 DEF FramePress, Goes, Untouched
<1>4. ASSUME act' = Thrown("gone"), Untouched
      PROVE  /\ act' \in ActType /\ SameTry /\ act'.pc = "restore" /\ SameListener /\ SameAim
             /\ act'.err = "gone" /\ act'.status = act.status /\ act'.answer = act.answer
             /\ Unpressed
 <2>1. Thrown("gone") \in ActType /\ Like(Thrown("gone"))
       /\ Thrown("gone").pc = "restore" /\ Thrown("gone").err = "gone"
       /\ Thrown("gone").status = act.status /\ Thrown("gone").answer = act.answer
   BY <1>1, ThrownIs DEF ClickPCs
 <2>2. QED
   BY <1>4, <2>1 DEF Like, Untouched, Unpressed, SameListener, SameAim, SameTry
<1>5. ASSUME act' = [At("strike") EXCEPT !.aim = names], Untouched
      PROVE  /\ act' \in ActType /\ SameTry /\ act'.pc = "strike" /\ SameListener
             /\ act'.aim = names /\ act'.before = act.before /\ SameFate /\ Unpressed
 <2> DEFINE r == [At("strike") EXCEPT !.aim = names]
 <2>1. r \in ActType /\ r.heard = act.heard
       /\ r.pc = "strike" /\ r.try = act.try /\ r.armed = act.armed /\ r.bound = act.bound
       /\ r.aim = names /\ r.before = act.before /\ r.err = act.err /\ r.status = act.status
       /\ r.answer = act.answer
  <3>1. "strike" \in ClickPCs /\ {"unknown", "not_dispatched"} \subseteq Statuses
    BY DEF ClickPCs, Statuses
  <3>2. QED
    BY <1>1, <3>1 DEF ActType, At, Thrown
 <2>2. act' = r
   BY <1>5
 <2> HIDE DEF r
 <2>3. QED
   BY <1>5, <2>1, <2>2 DEF Untouched, Unpressed, SameListener, SameFate, SameTry
<1>6. QED
  BY <1>2, <1>3, <1>4, <1>5

LEMMA PressAt ==
    ASSUME ClickConstants, ClickTypeOK, Press
    PROVE  /\ act' \in ActType /\ SameTry /\ act.pc = "press" /\ control.via \in {"ref", "drive"}
           /\ UNCHANGED <<control, seen, names, fit, page, dialog, moves, inert, journal, errors>>
           /\ \/ /\ control.is = "switch" /\ act'.pc = "toggled" /\ SameListener
                 /\ act'.aim = act.aim /\ act'.before = shown /\ SameFate
                 /\ (\E n \in Nodes : Pressed(n))
              \/ /\ control.is \in {"switch", "keyed"} /\ act'.pc = "toggled" /\ SameListener
                 /\ act'.aim = act.aim /\ act'.before = shown /\ SameFate /\ Unpressed
              \/ /\ act'.pc = "restore" /\ SameListener /\ SameAim /\ act'.status = act.status
                 /\ act'.answer = act.answer /\ Unpressed
              \/ /\ act'.pc = "aimed" /\ SameListener /\ act'.aim = names
                 /\ act'.before = act.before /\ SameFate /\ Unpressed
              \/ /\ act'.pc = "strike" /\ SameListener /\ act'.aim = "none"
                 /\ act'.before = act.before /\ SameFate /\ Unpressed
<1>1. /\ act \in ActType /\ shown \in Nat
      /\ {names, act.bound, act.aim} \subseteq Nodes \cup {"none"}
  BY DEF ClickTypeOK, ActType
<1>2. /\ act.pc = "press" /\ control.via \in {"ref", "drive"}
      /\ UNCHANGED <<control, seen, names, fit, page, dialog, moves, inert, journal, errors>>
  BY DEF Press, Quiet, Calm, scene, BySelector
<1>3. \/ /\ control.is = "switch"
         /\ (\E n \in Nodes : Activates(n, [At("toggled") EXCEPT !.before = shown]))
      \/ /\ control.is \in {"switch", "keyed"}
         /\ act' = [At("toggled") EXCEPT !.before = shown] /\ Untouched
      \/ /\ act' = TimedOut("none") /\ Untouched
      \/ /\ act' = [At("aimed") EXCEPT !.aim = names] /\ Untouched
      \/ /\ act' = [At("strike") EXCEPT !.aim = "none"] /\ Untouched
  BY <1>1 DEF Press, Goes, Untouched, BySelector, Toggles
<1>4. ASSUME control.is = "switch", NEW n \in Nodes, Activates(n, [At("toggled") EXCEPT
             !.before = shown])
      PROVE  /\ act' \in ActType /\ SameTry /\ control.is = "switch" /\ act'.pc = "toggled"
             /\ SameListener /\ act'.aim = act.aim /\ act'.before = shown /\ SameFate
             /\ Pressed(n)
 <2> DEFINE r == [At("toggled") EXCEPT !.before = shown]
 <2>1. r \in ActType /\ r.heard = act.heard
       /\ r.pc = "toggled" /\ r.try = act.try /\ r.armed = act.armed /\ r.bound = act.bound
       /\ r.aim = act.aim /\ r.before = shown /\ r.err = act.err /\ r.status = act.status
       /\ r.answer = act.answer
  <3>1. "toggled" \in ClickPCs /\ {"unknown", "not_dispatched"} \subseteq Statuses
    BY DEF ClickPCs, Statuses
  <3>2. QED
    BY <1>1, <3>1, <1>4 DEF ActType, At, Thrown
 <2>2. Activates(n, r)
   BY <1>4
 <2> HIDE DEF r
 <2>3. QED
   BY <1>4, <2>1, <2>2, PressIs DEF SameListener, SameFate, SameTry
<1>5. ASSUME control.is \in {"switch", "keyed"}, act' = [At("toggled") EXCEPT !.before =
             shown], Untouched
      PROVE  /\ act' \in ActType /\ SameTry /\ control.is \in {"switch", "keyed"}
             /\ act'.pc = "toggled" /\ SameListener /\ act'.aim = act.aim
             /\ act'.before = shown /\ SameFate /\ Unpressed
 <2> DEFINE r == [At("toggled") EXCEPT !.before = shown]
 <2>1. r \in ActType /\ r.heard = act.heard
       /\ r.pc = "toggled" /\ r.try = act.try /\ r.armed = act.armed /\ r.bound = act.bound
       /\ r.aim = act.aim /\ r.before = shown /\ r.err = act.err /\ r.status = act.status
       /\ r.answer = act.answer
  <3>1. "toggled" \in ClickPCs /\ {"unknown", "not_dispatched"} \subseteq Statuses
    BY DEF ClickPCs, Statuses
  <3>2. QED
    BY <1>1, <3>1, <1>5 DEF ActType, At, Thrown
 <2>2. act' = r
   BY <1>5
 <2> HIDE DEF r
 <2>3. QED
   BY <1>5, <2>1, <2>2 DEF Untouched, Unpressed, SameListener, SameFate, SameTry
<1>6. ASSUME act' = TimedOut("none"), Untouched
      PROVE  /\ act' \in ActType /\ SameTry /\ act'.pc = "restore" /\ SameListener /\ SameAim
             /\ act'.status = act.status /\ act'.answer = act.answer /\ Unpressed
 <2>1. TimedOut("none") \in ActType /\ Like(TimedOut("none"))
       /\ TimedOut("none").pc = "restore" /\ TimedOut("none").status = act.status
       /\ TimedOut("none").answer = act.answer
   BY <1>1, TimedOutIs DEF ClickPCs
 <2>2. QED
   BY <1>6, <2>1 DEF Like, Untouched, Unpressed, SameListener, SameAim, SameTry
<1>7. ASSUME act' = [At("aimed") EXCEPT !.aim = names], Untouched
      PROVE  /\ act' \in ActType /\ SameTry /\ act'.pc = "aimed" /\ SameListener
             /\ act'.aim = names /\ act'.before = act.before /\ SameFate /\ Unpressed
 <2> DEFINE r == [At("aimed") EXCEPT !.aim = names]
 <2>1. r \in ActType /\ r.heard = act.heard
       /\ r.pc = "aimed" /\ r.try = act.try /\ r.armed = act.armed /\ r.bound = act.bound
       /\ r.aim = names /\ r.before = act.before /\ r.err = act.err /\ r.status = act.status
       /\ r.answer = act.answer
  <3>1. "aimed" \in ClickPCs /\ {"unknown", "not_dispatched"} \subseteq Statuses
    BY DEF ClickPCs, Statuses
  <3>2. QED
    BY <1>1, <3>1 DEF ActType, At, Thrown
 <2>2. act' = r
   BY <1>7
 <2> HIDE DEF r
 <2>3. QED
   BY <1>7, <2>1, <2>2 DEF Untouched, Unpressed, SameListener, SameFate, SameTry
<1>8. ASSUME act' = [At("strike") EXCEPT !.aim = "none"], Untouched
      PROVE  /\ act' \in ActType /\ SameTry /\ act'.pc = "strike" /\ SameListener
             /\ act'.aim = "none" /\ act'.before = act.before /\ SameFate /\ Unpressed
 <2> DEFINE r == [At("strike") EXCEPT !.aim = "none"]
 <2>1. r \in ActType /\ r.heard = act.heard
       /\ r.pc = "strike" /\ r.try = act.try /\ r.armed = act.armed /\ r.bound = act.bound
       /\ r.aim = "none" /\ r.before = act.before /\ r.err = act.err /\ r.status = act.status
       /\ r.answer = act.answer
  <3>1. "strike" \in ClickPCs /\ {"unknown", "not_dispatched"} \subseteq Statuses
    BY DEF ClickPCs, Statuses
  <3>2. QED
    BY <1>1, <3>1 DEF ActType, At, Thrown
 <2>2. act' = r
   BY <1>8
 <2> HIDE DEF r
 <2>3. QED
   BY <1>8, <2>1, <2>2 DEF Untouched, Unpressed, SameListener, SameFate, SameTry
<1>9. QED
  BY <1>2, <1>3, <1>4, <1>5, <1>6, <1>7, <1>8

LEMMA StrikeAt ==
    ASSUME ClickConstants, ClickTypeOK, Strike
    PROVE  /\ act' \in ActType /\ SameTry /\ act.pc = "strike"
           /\ UNCHANGED <<control, seen, names, fit, page, dialog, moves, inert, journal, errors>>
           /\ \/ /\ Aimed \in Nodes /\ act'.pc = "struck" /\ SameListener /\ act'.aim = "none"
                 /\ act'.before = act.before /\ SameFate /\ Pressed(Aimed)
              \/ /\ act'.pc = act.pc /\ SameListener /\ SameAim /\ SameFate /\ Unpressed
              \/ /\ control.is = "item" /\ act'.pc = "backup" /\ SameListener /\ SameAim
                 /\ SameFate /\ Unpressed
              \/ /\ act'.pc = "restore" /\ SameListener /\ SameAim /\ act'.status = act.status
                 /\ act'.answer = act.answer /\ Unpressed
<1>1. /\ act \in ActType /\ shown \in Nat
      /\ {names, act.bound, act.aim} \subseteq Nodes \cup {"none"}
  BY DEF ClickTypeOK, ActType
<1>2. /\ act.pc = "strike"
      /\ UNCHANGED <<control, seen, names, fit, page, dialog, moves, inert, journal, errors>>
  BY DEF Strike, Quiet, Calm, scene, BySelector
<1>3. \/ /\ Aimed \in Nodes /\ Activates(Aimed, [At("struck") EXCEPT !.aim = "none"])
      \/ /\ act' = [act EXCEPT !.saw = TRUE] /\ Untouched
      \/ /\ control.is = "item" /\ act' = At("backup") /\ Untouched
      \/ /\ act' = TimedOut(Aimed) /\ Untouched
  BY <1>1 DEF Strike, Goes, Untouched, Meets, Aimed
<1>4. ASSUME Aimed \in Nodes, Activates(Aimed, [At("struck") EXCEPT !.aim = "none"])
      PROVE  /\ act' \in ActType /\ SameTry /\ Aimed \in Nodes /\ act'.pc = "struck"
             /\ SameListener /\ act'.aim = "none" /\ act'.before = act.before /\ SameFate
             /\ Pressed(Aimed)
 <2> DEFINE r == [At("struck") EXCEPT !.aim = "none"]
 <2>1. r \in ActType /\ r.heard = act.heard
       /\ r.pc = "struck" /\ r.try = act.try /\ r.armed = act.armed /\ r.bound = act.bound
       /\ r.aim = "none" /\ r.before = act.before /\ r.err = act.err /\ r.status = act.status
       /\ r.answer = act.answer
  <3>1. "struck" \in ClickPCs /\ {"unknown", "not_dispatched"} \subseteq Statuses
    BY DEF ClickPCs, Statuses
  <3>2. QED
    BY <1>1, <3>1, <1>4 DEF ActType, At, Thrown
 <2>2. Activates(Aimed, r)
   BY <1>4
 <2> HIDE DEF r
 <2>3. QED
   BY <1>4, <2>1, <2>2, PressIs DEF SameListener, SameFate, SameTry
<1>5. ASSUME act' = [act EXCEPT !.saw = TRUE], Untouched
      PROVE  /\ act' \in ActType /\ SameTry /\ act'.pc = act.pc /\ SameListener /\ SameAim
             /\ SameFate /\ Unpressed
 <2> DEFINE r == [act EXCEPT !.saw = TRUE]
 <2>1. r \in ActType /\ r.heard = act.heard
       /\ r.pc = act.pc /\ r.try = act.try /\ r.armed = act.armed /\ r.bound = act.bound
       /\ r.aim = act.aim /\ r.before = act.before /\ r.err = act.err
       /\ r.status = act.status /\ r.answer = act.answer
  <3>1. {"unknown", "not_dispatched"} \subseteq Statuses
    BY DEF ClickPCs, Statuses
  <3>2. QED
    BY <1>1, <3>1 DEF ActType, At, Thrown
 <2>2. act' = r
   BY <1>5
 <2> HIDE DEF r
 <2>3. QED
   BY <1>5, <2>1, <2>2 DEF Untouched, Unpressed, SameListener, SameAim, SameFate, SameTry
<1>6. ASSUME control.is = "item", act' = At("backup"), Untouched
      PROVE  /\ act' \in ActType /\ SameTry /\ control.is = "item" /\ act'.pc = "backup"
             /\ SameListener /\ SameAim /\ SameFate /\ Unpressed
 <2>1. At("backup") \in ActType /\ Like(At("backup"))
       /\ At("backup").pc = "backup" /\ At("backup").err = act.err
       /\ At("backup").status = act.status /\ At("backup").answer = act.answer
   BY <1>1, AtIs DEF ClickPCs
 <2>2. QED
   BY <1>6, <2>1 DEF Like, Untouched, Unpressed, SameListener, SameAim, SameFate, SameTry
<1>7. ASSUME act' = TimedOut(Aimed), Untouched
      PROVE  /\ act' \in ActType /\ SameTry /\ act'.pc = "restore" /\ SameListener /\ SameAim
             /\ act'.status = act.status /\ act'.answer = act.answer /\ Unpressed
 <2>1. TimedOut(Aimed) \in ActType /\ Like(TimedOut(Aimed))
       /\ TimedOut(Aimed).pc = "restore" /\ TimedOut(Aimed).status = act.status
       /\ TimedOut(Aimed).answer = act.answer
   BY <1>1, TimedOutIs DEF ClickPCs
 <2>2. QED
   BY <1>7, <2>1 DEF Like, Untouched, Unpressed, SameListener, SameAim, SameTry
<1>8. QED
  BY <1>2, <1>3, <1>4, <1>5, <1>6, <1>7

LEMMA MouseStrikesAt ==
    ASSUME ClickConstants, ClickTypeOK, MouseStrikes
    PROVE  /\ act' \in ActType /\ SameTry /\ act.pc = "aimed"
           /\ UNCHANGED <<control, seen, names, fit, page, dialog, moves, inert, journal, errors>>
           /\ \/ /\ act'.pc = "restore" /\ SameListener /\ SameAim /\ act'.err = "closed"
                 /\ act'.status = act.status /\ act'.answer = act.answer /\ Unpressed
              \/ /\ act'.pc = "struck" /\ SameListener /\ SameAim /\ SameFate /\ Unpressed
              \/ /\ act'.pc = "struck" /\ SameListener /\ act'.aim = "none"
                 /\ act'.before = act.before /\ SameFate /\ (\E n \in Nodes : Pressed(n))
<1>1. /\ act \in ActType /\ shown \in Nat
      /\ {names, act.bound, act.aim} \subseteq Nodes \cup {"none"}
  BY DEF ClickTypeOK, ActType
<1>2. /\ act.pc = "aimed"
      /\ UNCHANGED <<control, seen, names, fit, page, dialog, moves, inert, journal, errors>>
  BY DEF MouseStrikes, Quiet, Calm, scene, BySelector
<1>3. \/ /\ act' = Thrown("closed") /\ Untouched
      \/ /\ act' = At("struck") /\ Untouched
      \/ /\ (\E n \in Nodes : Activates(n, [At("struck") EXCEPT !.aim = "none"]))
  BY <1>1 DEF MouseStrikes, Goes, Untouched
<1>4. ASSUME act' = Thrown("closed"), Untouched
      PROVE  /\ act' \in ActType /\ SameTry /\ act'.pc = "restore" /\ SameListener /\ SameAim
             /\ act'.err = "closed" /\ act'.status = act.status /\ act'.answer = act.answer
             /\ Unpressed
 <2>1. Thrown("closed") \in ActType /\ Like(Thrown("closed"))
       /\ Thrown("closed").pc = "restore" /\ Thrown("closed").err = "closed"
       /\ Thrown("closed").status = act.status /\ Thrown("closed").answer = act.answer
   BY <1>1, ThrownIs DEF ClickPCs
 <2>2. QED
   BY <1>4, <2>1 DEF Like, Untouched, Unpressed, SameListener, SameAim, SameTry
<1>5. ASSUME act' = At("struck"), Untouched
      PROVE  /\ act' \in ActType /\ SameTry /\ act'.pc = "struck" /\ SameListener /\ SameAim
             /\ SameFate /\ Unpressed
 <2>1. At("struck") \in ActType /\ Like(At("struck"))
       /\ At("struck").pc = "struck" /\ At("struck").err = act.err
       /\ At("struck").status = act.status /\ At("struck").answer = act.answer
   BY <1>1, AtIs DEF ClickPCs
 <2>2. QED
   BY <1>5, <2>1 DEF Like, Untouched, Unpressed, SameListener, SameAim, SameFate, SameTry
<1>6. ASSUME NEW n \in Nodes, Activates(n, [At("struck") EXCEPT !.aim = "none"])
      PROVE  /\ act' \in ActType /\ SameTry /\ act'.pc = "struck" /\ SameListener
             /\ act'.aim = "none" /\ act'.before = act.before /\ SameFate /\ Pressed(n)
 <2> DEFINE r == [At("struck") EXCEPT !.aim = "none"]
 <2>1. r \in ActType /\ r.heard = act.heard
       /\ r.pc = "struck" /\ r.try = act.try /\ r.armed = act.armed /\ r.bound = act.bound
       /\ r.aim = "none" /\ r.before = act.before /\ r.err = act.err /\ r.status = act.status
       /\ r.answer = act.answer
  <3>1. "struck" \in ClickPCs /\ {"unknown", "not_dispatched"} \subseteq Statuses
    BY DEF ClickPCs, Statuses
  <3>2. QED
    BY <1>1, <3>1 DEF ActType, At, Thrown
 <2>2. Activates(n, r)
   BY <1>6
 <2> HIDE DEF r
 <2>3. QED
   BY <1>6, <2>1, <2>2, PressIs DEF SameListener, SameFate, SameTry
<1>7. QED
  BY <1>2, <1>3, <1>4, <1>5, <1>6

LEMMA SwitchReadsAt ==
    ASSUME ClickConstants, ClickTypeOK, SwitchReads
    PROVE  /\ act' \in ActType /\ SameTry /\ act.pc = "toggled"
           /\ UNCHANGED <<control, seen, names, fit, page, dialog, moves, inert, journal, errors>>
           /\ \/ /\ act'.pc = "restore" /\ SameListener /\ SameAim /\ SameFate /\ Unpressed
              \/ /\ shown = act.before /\ act'.pc = "restore" /\ SameListener /\ SameAim
                 /\ SameFate /\ (\E n \in Nodes : Pressed(n))
<1>1. /\ act \in ActType /\ shown \in Nat
      /\ {names, act.bound, act.aim} \subseteq Nodes \cup {"none"}
  BY DEF ClickTypeOK, ActType
<1>2. /\ act.pc = "toggled"
      /\ UNCHANGED <<control, seen, names, fit, page, dialog, moves, inert, journal, errors>>
  BY DEF SwitchReads, Quiet, Calm, scene, BySelector
<1>3. \/ /\ act' = At("restore") /\ Untouched
      \/ /\ shown = act.before /\ (\E n \in Nodes : Activates(n, At("restore")))
  BY <1>1 DEF SwitchReads, Goes, Untouched, Meets
<1>4. ASSUME act' = At("restore"), Untouched
      PROVE  /\ act' \in ActType /\ SameTry /\ act'.pc = "restore" /\ SameListener /\ SameAim
             /\ SameFate /\ Unpressed
 <2>1. At("restore") \in ActType /\ Like(At("restore"))
       /\ At("restore").pc = "restore" /\ At("restore").err = act.err
       /\ At("restore").status = act.status /\ At("restore").answer = act.answer
   BY <1>1, AtIs DEF ClickPCs
 <2>2. QED
   BY <1>4, <2>1 DEF Like, Untouched, Unpressed, SameListener, SameAim, SameFate, SameTry
<1>5. ASSUME shown = act.before, NEW n \in Nodes, Activates(n, At("restore"))
      PROVE  /\ act' \in ActType /\ SameTry /\ shown = act.before /\ act'.pc = "restore"
             /\ SameListener /\ SameAim /\ SameFate /\ Pressed(n)
 <2>1. At("restore") \in ActType /\ Like(At("restore"))
       /\ At("restore").pc = "restore" /\ At("restore").err = act.err
       /\ At("restore").status = act.status /\ At("restore").answer = act.answer
   BY <1>1, AtIs DEF ClickPCs
 <2>2. QED
   BY <1>5, <2>1, PressIs DEF Like, SameListener, SameAim, SameFate, SameTry
<1>6. QED
  BY <1>2, <1>3, <1>4, <1>5

LEMMA BackupAt ==
    ASSUME ClickConstants, ClickTypeOK, Backup
    PROVE  /\ act' \in ActType /\ SameTry /\ act.pc = "backup"
           /\ UNCHANGED <<control, seen, names, fit, page, dialog, moves, inert, journal, errors>>
           /\ \/ /\ act'.pc = "restore" /\ SameListener /\ SameAim /\ act'.status = act.status
                 /\ act'.answer = act.answer /\ Unpressed
              \/ /\ act'.pc = "restore" /\ SameListener /\ SameAim /\ SameFate
                 /\ (\E n \in Nodes : Pressed(n))
<1>1. /\ act \in ActType /\ shown \in Nat
      /\ {names, act.bound, act.aim} \subseteq Nodes \cup {"none"}
  BY DEF ClickTypeOK, ActType
<1>2. /\ act.pc = "backup"
      /\ UNCHANGED <<control, seen, names, fit, page, dialog, moves, inert, journal, errors>>
  BY DEF Backup, Quiet, Calm, scene, BySelector
<1>3. \/ /\ act' = TimedOut("none") /\ Untouched
      \/ /\ (\E n \in Nodes : Activates(n, At("restore")))
  BY <1>1 DEF Backup, Goes, Untouched
<1>4. ASSUME act' = TimedOut("none"), Untouched
      PROVE  /\ act' \in ActType /\ SameTry /\ act'.pc = "restore" /\ SameListener /\ SameAim
             /\ act'.status = act.status /\ act'.answer = act.answer /\ Unpressed
 <2>1. TimedOut("none") \in ActType /\ Like(TimedOut("none"))
       /\ TimedOut("none").pc = "restore" /\ TimedOut("none").status = act.status
       /\ TimedOut("none").answer = act.answer
   BY <1>1, TimedOutIs DEF ClickPCs
 <2>2. QED
   BY <1>4, <2>1 DEF Like, Untouched, Unpressed, SameListener, SameAim, SameTry
<1>5. ASSUME NEW n \in Nodes, Activates(n, At("restore"))
      PROVE  /\ act' \in ActType /\ SameTry /\ act'.pc = "restore" /\ SameListener /\ SameAim
             /\ SameFate /\ Pressed(n)
 <2>1. At("restore") \in ActType /\ Like(At("restore"))
       /\ At("restore").pc = "restore" /\ At("restore").err = act.err
       /\ At("restore").status = act.status /\ At("restore").answer = act.answer
   BY <1>1, AtIs DEF ClickPCs
 <2>2. QED
   BY <1>5, <2>1, PressIs DEF Like, SameListener, SameAim, SameFate, SameTry
<1>6. QED
  BY <1>2, <1>3, <1>4, <1>5

LEMMA StruckAt ==
    ASSUME ClickConstants, ClickTypeOK, Struck
    PROVE  /\ act' \in ActType /\ SameTry /\ act.pc = "struck"
           /\ UNCHANGED <<control, seen, names, fit, page, dialog, moves, inert, journal>>
           /\ \/ /\ errors' = errors /\ act'.pc = "restore" /\ SameListener /\ SameAim
                 /\ SameFate /\ Unpressed
              \/ /\ errors' = errors /\ act'.pc = "restore" /\ SameListener /\ SameAim
                 /\ act'.err = "closed" /\ act'.status = act.status
                 /\ act'.answer = act.answer /\ Unpressed
              \/ /\ errors' = errors + 1 /\ errors < MaxErrors /\ control.is = "item"
                 /\ act'.pc = "backup" /\ SameListener /\ SameAim /\ SameFate /\ Unpressed
              \/ /\ errors' = errors + 1 /\ errors < MaxErrors /\ act'.pc = "restore"
                 /\ SameListener /\ SameAim /\ act'.status = act.status
                 /\ act'.answer = act.answer /\ Unpressed
<1>1. /\ act \in ActType /\ shown \in Nat
      /\ {names, act.bound, act.aim} \subseteq Nodes \cup {"none"}
  BY DEF ClickTypeOK, ActType
<1>2. /\ act.pc = "struck"
      /\ UNCHANGED <<control, seen, names, fit, page, dialog, moves, inert, journal>>
  BY DEF Struck, Quiet, Calm, scene, BySelector
<1>3. \/ /\ errors' = errors /\ act' = At("restore") /\ Untouched
      \/ /\ errors' = errors /\ act' = Thrown("closed") /\ Untouched
      \/ /\ errors' = errors + 1 /\ errors < MaxErrors /\ control.is = "item"
         /\ act' = At("backup") /\ Untouched
      \/ /\ errors' = errors + 1 /\ errors < MaxErrors /\ act' = TimedOut("none") /\ Untouched
  BY <1>1 DEF Struck, Goes, Untouched, Errs
<1>4. ASSUME errors' = errors, act' = At("restore"), Untouched
      PROVE  /\ act' \in ActType /\ SameTry /\ errors' = errors /\ act'.pc = "restore"
             /\ SameListener /\ SameAim /\ SameFate /\ Unpressed
 <2>1. At("restore") \in ActType /\ Like(At("restore"))
       /\ At("restore").pc = "restore" /\ At("restore").err = act.err
       /\ At("restore").status = act.status /\ At("restore").answer = act.answer
   BY <1>1, AtIs DEF ClickPCs
 <2>2. QED
   BY <1>4, <2>1 DEF Like, Untouched, Unpressed, SameListener, SameAim, SameFate, SameTry
<1>5. ASSUME errors' = errors, act' = Thrown("closed"), Untouched
      PROVE  /\ act' \in ActType /\ SameTry /\ errors' = errors /\ act'.pc = "restore"
             /\ SameListener /\ SameAim /\ act'.err = "closed" /\ act'.status = act.status
             /\ act'.answer = act.answer /\ Unpressed
 <2>1. Thrown("closed") \in ActType /\ Like(Thrown("closed"))
       /\ Thrown("closed").pc = "restore" /\ Thrown("closed").err = "closed"
       /\ Thrown("closed").status = act.status /\ Thrown("closed").answer = act.answer
   BY <1>1, ThrownIs DEF ClickPCs
 <2>2. QED
   BY <1>5, <2>1 DEF Like, Untouched, Unpressed, SameListener, SameAim, SameTry
<1>6. ASSUME errors' = errors + 1 /\ errors < MaxErrors /\ control.is = "item", act' =
             At("backup"), Untouched
      PROVE  /\ act' \in ActType /\ SameTry
             /\ errors' = errors + 1 /\ errors < MaxErrors /\ control.is = "item"
             /\ act'.pc = "backup" /\ SameListener /\ SameAim /\ SameFate /\ Unpressed
 <2>1. At("backup") \in ActType /\ Like(At("backup"))
       /\ At("backup").pc = "backup" /\ At("backup").err = act.err
       /\ At("backup").status = act.status /\ At("backup").answer = act.answer
   BY <1>1, AtIs DEF ClickPCs
 <2>2. QED
   BY <1>6, <2>1 DEF Like, Untouched, Unpressed, SameListener, SameAim, SameFate, SameTry
<1>7. ASSUME errors' = errors + 1 /\ errors < MaxErrors, act' = TimedOut("none"), Untouched
      PROVE  /\ act' \in ActType /\ SameTry /\ errors' = errors + 1 /\ errors < MaxErrors
             /\ act'.pc = "restore" /\ SameListener /\ SameAim /\ act'.status = act.status
             /\ act'.answer = act.answer /\ Unpressed
 <2>1. TimedOut("none") \in ActType /\ Like(TimedOut("none"))
       /\ TimedOut("none").pc = "restore" /\ TimedOut("none").status = act.status
       /\ TimedOut("none").answer = act.answer
   BY <1>1, TimedOutIs DEF ClickPCs
 <2>2. QED
   BY <1>7, <2>1 DEF Like, Untouched, Unpressed, SameListener, SameAim, SameTry
<1>8. QED
  BY <1>2, <1>3, <1>4, <1>5, <1>6, <1>7

LEMMA JsClickAt ==
    ASSUME ClickConstants, ClickTypeOK, JsClick
    PROVE  /\ act' \in ActType /\ SameTry /\ act.pc = "js"
           /\ UNCHANGED <<control, seen, names, fit, page, dialog, moves, inert, journal, errors>>
           /\ \/ /\ Handle \in Nodes /\ act'.pc = "over" /\ SameListener /\ SameAim
                 /\ SameFate /\ Pressed(Handle)
              \/ /\ control.via = "locator" /\ act'.pc = "judge" /\ SameListener /\ SameAim
                 /\ act'.err = "gone" /\ act'.status = "not_dispatched"
                 /\ act'.answer = act.answer /\ Unpressed
              \/ /\ act'.pc = "judge" /\ SameListener /\ SameAim /\ act'.err = "gone"
                 /\ act'.status = "unknown" /\ act'.answer = act.answer /\ Unpressed
              \/ /\ act'.pc = "over" /\ SameListener /\ SameAim /\ SameFate /\ Unpressed
<1>1. /\ act \in ActType /\ shown \in Nat
      /\ {names, act.bound, act.aim} \subseteq Nodes \cup {"none"}
  BY DEF ClickTypeOK, ActType
<1>2. /\ act.pc = "js"
      /\ UNCHANGED <<control, seen, names, fit, page, dialog, moves, inert, journal, errors>>
  BY DEF JsClick, Quiet, Calm, scene, BySelector
<1>3. \/ /\ Handle \in Nodes /\ Activates(Handle, At("over"))
      \/ /\ control.via = "locator" /\ act' = Refused("gone") /\ Untouched
      \/ /\ act' = [act EXCEPT !.pc = "judge", !.err = "gone", !.status = "unknown"]
         /\ Untouched
      \/ /\ act' = At("over") /\ Untouched
  BY <1>1 DEF JsClick, Goes, Untouched, Finished, Handle
<1>4. ASSUME Handle \in Nodes, Activates(Handle, At("over"))
      PROVE  /\ act' \in ActType /\ SameTry /\ Handle \in Nodes /\ act'.pc = "over"
             /\ SameListener /\ SameAim /\ SameFate /\ Pressed(Handle)
 <2>1. At("over") \in ActType /\ Like(At("over"))
       /\ At("over").pc = "over" /\ At("over").err = act.err
       /\ At("over").status = act.status /\ At("over").answer = act.answer
   BY <1>1, AtIs DEF ClickPCs
 <2>2. QED
   BY <1>4, <2>1, PressIs DEF Like, SameListener, SameAim, SameFate, SameTry
<1>5. ASSUME control.via = "locator", act' = Refused("gone"), Untouched
      PROVE  /\ act' \in ActType /\ SameTry /\ control.via = "locator" /\ act'.pc = "judge"
             /\ SameListener /\ SameAim /\ act'.err = "gone" /\ act'.status = "not_dispatched"
             /\ act'.answer = act.answer /\ Unpressed
 <2>1. Refused("gone") \in ActType /\ Like(Refused("gone"))
       /\ Refused("gone").pc = "judge" /\ Refused("gone").err = "gone"
       /\ Refused("gone").status = "not_dispatched" /\ Refused("gone").answer = act.answer
   BY <1>1, RefusedIs DEF ClickPCs
 <2>2. QED
   BY <1>5, <2>1 DEF Like, Untouched, Unpressed, SameListener, SameAim, SameTry
<1>6. ASSUME act' = [act EXCEPT !.pc = "judge", !.err = "gone", !.status = "unknown"],
             Untouched
      PROVE  /\ act' \in ActType /\ SameTry /\ act'.pc = "judge" /\ SameListener /\ SameAim
             /\ act'.err = "gone" /\ act'.status = "unknown" /\ act'.answer = act.answer
             /\ Unpressed
 <2> DEFINE r == [act EXCEPT !.pc = "judge", !.err = "gone", !.status = "unknown"]
 <2>1. r \in ActType /\ r.heard = act.heard
       /\ r.pc = "judge" /\ r.try = act.try /\ r.armed = act.armed /\ r.bound = act.bound
       /\ r.aim = act.aim /\ r.before = act.before /\ r.err = "gone" /\ r.status = "unknown"
       /\ r.answer = act.answer
  <3>1. "judge" \in ClickPCs /\ {"unknown", "not_dispatched"} \subseteq Statuses
    BY DEF ClickPCs, Statuses
  <3>2. QED
    BY <1>1, <3>1 DEF ActType, At, Thrown
 <2>2. act' = r
   BY <1>6
 <2> HIDE DEF r
 <2>3. QED
   BY <1>6, <2>1, <2>2 DEF Untouched, Unpressed, SameListener, SameAim, SameTry
<1>7. ASSUME act' = At("over"), Untouched
      PROVE  /\ act' \in ActType /\ SameTry /\ act'.pc = "over" /\ SameListener /\ SameAim
             /\ SameFate /\ Unpressed
 <2>1. At("over") \in ActType /\ Like(At("over"))
       /\ At("over").pc = "over" /\ At("over").err = act.err
       /\ At("over").status = act.status /\ At("over").answer = act.answer
   BY <1>1, AtIs DEF ClickPCs
 <2>2. QED
   BY <1>7, <2>1 DEF Like, Untouched, Unpressed, SameListener, SameAim, SameFate, SameTry
<1>8. QED
  BY <1>2, <1>3, <1>4, <1>5, <1>6, <1>7

LEMMA RestoreAt ==
    ASSUME ClickConstants, ClickTypeOK, Restore
    PROVE  /\ act' \in ActType /\ SameTry /\ act.pc = "restore"
           /\ UNCHANGED <<control, seen, names, fit, page, dialog, moves, journal, errors>>
           /\ \/ /\ inert' = Restored /\ act'.pc = "over" /\ SameListener /\ SameAim
                 /\ SameFate /\ Unpressed
              \/ /\ inert' = Restored /\ act'.pc = "judge" /\ SameListener /\ SameAim
                 /\ SameFate /\ Unpressed
<1>1. /\ act \in ActType /\ shown \in Nat
      /\ {names, act.bound, act.aim} \subseteq Nodes \cup {"none"}
  BY DEF ClickTypeOK, ActType
<1>2. /\ act.pc = "restore"
      /\ UNCHANGED <<control, seen, names, fit, page, dialog, moves, journal, errors>>
  BY DEF Restore, Quiet, Calm, scene, BySelector
<1>3. \/ /\ inert' = Restored /\ act' = At("over") /\ Untouched
      \/ /\ inert' = Restored /\ act' = At("judge") /\ Untouched
  BY <1>1 DEF Restore, Goes, Untouched, Finished
<1>4. ASSUME inert' = Restored, act' = At("over"), Untouched
      PROVE  /\ act' \in ActType /\ SameTry /\ inert' = Restored /\ act'.pc = "over"
             /\ SameListener /\ SameAim /\ SameFate /\ Unpressed
 <2>1. At("over") \in ActType /\ Like(At("over"))
       /\ At("over").pc = "over" /\ At("over").err = act.err
       /\ At("over").status = act.status /\ At("over").answer = act.answer
   BY <1>1, AtIs DEF ClickPCs
 <2>2. QED
   BY <1>4, <2>1 DEF Like, Untouched, Unpressed, SameListener, SameAim, SameFate, SameTry
<1>5. ASSUME inert' = Restored, act' = At("judge"), Untouched
      PROVE  /\ act' \in ActType /\ SameTry /\ inert' = Restored /\ act'.pc = "judge"
             /\ SameListener /\ SameAim /\ SameFate /\ Unpressed
 <2>1. At("judge") \in ActType /\ Like(At("judge"))
       /\ At("judge").pc = "judge" /\ At("judge").err = act.err
       /\ At("judge").status = act.status /\ At("judge").answer = act.answer
   BY <1>1, AtIs DEF ClickPCs
 <2>2. QED
   BY <1>5, <2>1 DEF Like, Untouched, Unpressed, SameListener, SameAim, SameFate, SameTry
<1>6. QED
  BY <1>2, <1>3, <1>4, <1>5

LEMMA AnswerAt ==
    ASSUME ClickConstants, ClickTypeOK, Answer
    PROVE  /\ act' \in ActType /\ SameTry /\ act.pc = "over" /\ act.answer = "none"
           /\ UNCHANGED <<control, seen, names, fit, page, dialog, moves, inert, journal, errors>>
           /\ act'.pc = act.pc /\ SameListener /\ SameAim /\ act'.err = act.err
           /\ act'.status = act.status /\ act'.answer = "ok" /\ Unpressed
<1>1. /\ act \in ActType /\ shown \in Nat
      /\ {names, act.bound, act.aim} \subseteq Nodes \cup {"none"}
  BY DEF ClickTypeOK, ActType
<1>2. /\ act.pc = "over" /\ act.answer = "none"
      /\ UNCHANGED <<control, seen, names, fit, page, dialog, moves, inert, journal, errors>>
  BY DEF Answer, Quiet, Calm, scene, BySelector
<1>3. /\ act' = [act EXCEPT !.answer = "ok"] /\ Untouched
  BY <1>1 DEF Answer, Goes, Untouched
<1>4. ASSUME act' = [act EXCEPT !.answer = "ok"], Untouched
      PROVE  /\ act' \in ActType /\ SameTry /\ act'.pc = act.pc /\ SameListener /\ SameAim
             /\ act'.err = act.err /\ act'.status = act.status /\ act'.answer = "ok"
             /\ Unpressed
 <2> DEFINE r == [act EXCEPT !.answer = "ok"]
 <2>1. r \in ActType /\ r.heard = act.heard
       /\ r.pc = act.pc /\ r.try = act.try /\ r.armed = act.armed /\ r.bound = act.bound
       /\ r.aim = act.aim /\ r.before = act.before /\ r.err = act.err
       /\ r.status = act.status /\ r.answer = "ok"
  <3>1. {"unknown", "not_dispatched"} \subseteq Statuses
    BY DEF ClickPCs, Statuses
  <3>2. QED
    BY <1>1, <3>1 DEF ActType, At, Thrown
 <2>2. act' = r
   BY <1>4
 <2> HIDE DEF r
 <2>3. QED
   BY <1>4, <2>1, <2>2 DEF Untouched, Unpressed, SameListener, SameAim, SameTry
<1>5. QED
  BY <1>2, <1>3, <1>4

LEMMA ToldIs ==
    ASSUME act \in ActType
    PROVE  /\ Told \in Statuses /\ (act.status # "none" => Told = act.status)
           /\ Told = "not_dispatched" /\ act.status = "none" => Listening /\ Unheard
BY DEF Told, ActType, Statuses, Unheard

LEMMA JudgeClickAt ==
    ASSUME ClickConstants, ClickTypeOK, JudgeClick
    PROVE  /\ act' \in ActType /\ act.pc = "judge" /\ Unpressed /\ act'.bound = act.bound /\ SameAim
           /\ UNCHANGED <<control, seen, names, fit, page, dialog, moves, inert, journal, errors>>
           /\ \/ /\ act'.pc = "over" /\ SameTry /\ SameListener /\ act'.err = act.err
                 /\ act'.status = Told /\ act'.answer \in {act.answer, "stale", "error"}
              \/ /\ Clicking /\ control.via # "drive" /\ Told = "not_dispatched"
                 /\ act.err = "intercepts" /\ act'.pc = "start" /\ act'.try = "js"
                 /\ act'.armed = FALSE /\ act'.err = "none" /\ act'.status = "none"
                 /\ act'.answer = act.answer
<1> DEFINE ended == [At("over") EXCEPT !.status = Told]
           failed == [At("over") EXCEPT !.status = Told,
                                        !.answer = IF control.via = "drive" THEN "stale" ELSE "error"]
           again == [At("start") EXCEPT !.try = "js", !.phase = "prepared", !.err = "none",
                                        !.status = "none", !.armed = FALSE]
<1>1. act \in ActType /\ Told \in Statuses
  BY ToldIs DEF ClickTypeOK
<1>2. /\ act.pc = "judge" /\ Untouched
      /\ UNCHANGED <<control, seen, names, fit, page, dialog, moves, inert, journal, errors>>
  BY DEF JudgeClick, Goes, Quiet, Calm, scene
<1>3. \/ act' = ended
      \/ FallsBack(Told) /\ act' = again
      \/ act' = failed
  BY DEF JudgeClick, Goes, Finished
<1>4. {"over", "start"} \subseteq ClickPCs /\ "none" \in Statuses
  BY DEF ClickPCs, Statuses
<1>5. CASE act' = ended
 <2>1. /\ ended \in ActType /\ ended.pc = "over" /\ ended.try = act.try /\ ended.bound = act.bound
       /\ ended.armed = act.armed /\ ended.heard = act.heard /\ ended.aim = act.aim
       /\ ended.before = act.before /\ ended.err = act.err /\ ended.status = Told
       /\ ended.answer = act.answer
   BY <1>1, <1>4 DEF ActType, At
 <2> HIDE DEF ended
 <2>2. QED
   BY <1>2, <1>5, <2>1 DEF Untouched, Unpressed, SameAim, SameTry, SameListener
<1>6. CASE act' = failed
 <2> DEFINE a == IF control.via = "drive" THEN "stale" ELSE "error"
            r == [At("over") EXCEPT !.status = Told, !.answer = a]
 <2>1. a \in {"stale", "error"} /\ act' = r
   BY <1>6
 <2> HIDE DEF a
 <2>2. /\ r \in ActType /\ r.pc = "over" /\ r.try = act.try /\ r.bound = act.bound
       /\ r.armed = act.armed /\ r.heard = act.heard /\ r.aim = act.aim
       /\ r.before = act.before /\ r.err = act.err /\ r.status = Told /\ r.answer = a
   BY <1>1, <1>4, <2>1 DEF ActType, At
 <2> HIDE DEF r
 <2>3. QED
   BY <1>2, <2>1, <2>2 DEF Untouched, Unpressed, SameAim, SameTry, SameListener
<1>7. CASE FallsBack(Told) /\ act' = again
 <2>1. /\ again \in ActType /\ again.pc = "start" /\ again.try = "js" /\ again.bound = act.bound
       /\ again.armed = FALSE /\ again.heard = act.heard /\ again.aim = act.aim
       /\ again.before = act.before /\ again.err = "none" /\ again.status = "none"
       /\ again.answer = act.answer
   BY <1>1, <1>4 DEF ActType, At
 <2>2. act' = again /\ Clicking /\ control.via # "drive" /\ Told = "not_dispatched" /\ act.err = "intercepts"
   BY <1>7 DEF FallsBack, Clicking
 <2> HIDE DEF again
 <2>3. QED
   BY <1>2, <2>1, <2>2 DEF Untouched, Unpressed, SameAim
<1>8. QED
  BY <1>3, <1>5, <1>6, <1>7

LEMMA PageMovesAt ==
    ASSUME ClickConstants, ClickTypeOK, PageMoves
    PROVE  /\ act' \in ActType /\ act'.pc = act.pc /\ act'.heard = act.heard
           /\ SameTry /\ SameListener /\ SameAim /\ SameFate
           /\ UNCHANGED <<control, seen, clicks, presses, journal, errors>>
           /\ shown' \in {shown, presses} /\ page = "live"
           /\ inert' = inert \/ ~dialog'
           /\ dialog' => dialog
           /\ names' \in Nodes \cup {"none"} /\ fit' \in [Nodes -> Fits]
           /\ page' \in {"live", "moved", "closed"} /\ dialog' \in BOOLEAN
           /\ inert' \in {"set", "lifted", "clear"} /\ moves' \in 0..MaxMoves
<1>1. act \in ActType
  BY DEF ClickTypeOK
<1>2. /\ page = "live" /\ moves' \in 0..MaxMoves
      /\ UNCHANGED <<control, seen, clicks, presses, journal, errors>>
  BY DEF PageMoves, ClickTypeOK, ClickConstants
<1>3. act' = act \/ act' = [act EXCEPT !.cancelled = TRUE]
  BY DEF PageMoves
<1>4. /\ act' \in ActType /\ act'.pc = act.pc /\ act'.heard = act.heard
      /\ SameTry /\ SameListener /\ SameAim /\ SameFate
  BY <1>1, <1>3 DEF ActType, SameTry, SameListener, SameAim, SameFate
<1>5. /\ shown' \in {shown, presses} /\ dialog' \in BOOLEAN /\ (dialog' => dialog)
      /\ (inert' = inert \/ ~dialog') /\ inert' \in {"set", "lifted", "clear"}
 <2>1. \/ shown' = shown /\ dialog' = dialog /\ inert' = inert
       \/ shown' = presses /\ dialog' = dialog /\ inert' = inert
       \/ shown' = shown /\ dialog = TRUE /\ dialog' = FALSE /\ inert' \in {inert, "clear"}
   BY DEF PageMoves, scene
 <2>2. dialog \in BOOLEAN /\ inert \in {"set", "lifted", "clear"}
   BY DEF ClickTypeOK
 <2>3. shown' \in {shown, presses} /\ inert' \in {"set", "lifted", "clear"}
   BY <2>1, <2>2
 <2>4. dialog' \in BOOLEAN /\ (dialog' => dialog)
  <3>1. CASE dialog' = dialog
    BY <2>2, <3>1
  <3>2. CASE dialog' = FALSE
    BY <3>2
  <3>3. QED
    BY <2>1, <3>1, <3>2
 <2>5. inert' = inert \/ ~dialog'
   BY <2>1
 <2>6. QED
   BY <2>3, <2>4, <2>5
<1>6. page' \in {"live", "moved", "closed"} /\ names' \in Nodes \cup {"none"}
  BY DEF PageMoves, ClickTypeOK, scene
<1>7. fit' \in [Nodes -> Fits]
  BY DEF PageMoves, ClickTypeOK, scene, Fits
<1>8. QED
  BY <1>2, <1>4, <1>5, <1>6, <1>7

LEMMA StartKeeps ==
    ASSUME ClickConstants, ClickInv, Start
    PROVE  ClickInv'
<1>1. ClickTypeOK
  BY DEF ClickInv
<1>2. ClickTypeOK'
  BY <1>1, StartAt DEF ClickTypeOK, Unpressed
<1>3. Counted'
  BY <1>1, StartAt DEF ClickInv, Counted, Unpressed
<1>4. Lines'
  BY <1>1, StartAt DEF ClickInv, Lines, SameFate
<1>5. FirstTry'
  BY <1>1, StartAt DEF ClickInv, FirstTry, Clicking, SameTry, Unpressed
<1>6. Listened'
  BY <1>1, StartAt DEF ClickInv, Listened, Unarmed, Unheard, SameListener
<1>7. Proven'
  BY <1>1, StartAt DEF ClickInv, Proven, SameFate
<1>8. Repeats'
  BY <1>1, StartAt DEF ClickInv, Repeats, Clicking, BoundIsNew, Plain, SameListener, SameTry, Unpressed
<1>9. Journalled'
  BY <1>1, StartAt DEF ClickInv, Journalled, InPress, JournalKnows, Unpressed
<1>10. Background'
  BY <1>1, StartAt DEF ClickInv, Background, InPress
<1>11. PressedOnce'
  BY <1>1, StartAt DEF ClickInv, ClickTypeOK, PressedOnce, FirstTry, Repeats, Plain, Unpressed
<1>12. ProvenIsTrue'
  BY <1>1, StartAt DEF ClickInv, ClickTypeOK, ProvenIsTrue, Counted, FirstTry, Repeats, BoundIsNew,
         SameListener, Unpressed
<1>13. QED
  BY <1>2, <1>3, <1>4, <1>5, <1>6, <1>7, <1>8, <1>9, <1>10, <1>11, <1>12 DEF ClickInv

LEMMA ResolveKeeps ==
    ASSUME ClickConstants, ClickInv, Resolve
    PROVE  ClickInv'
<1>1. ClickTypeOK
  BY DEF ClickInv
<1>2. ClickTypeOK'
  BY <1>1, ResolveAt DEF ClickTypeOK, Unpressed
<1>3. Counted'
  BY <1>1, ResolveAt DEF ClickInv, Counted, Unpressed
<1>4. Lines'
  BY <1>1, ResolveAt DEF ClickInv, Lines, Repeats, Clicking, SameFate, SameTry
<1>5. FirstTry'
  BY <1>1, ResolveAt DEF ClickInv, FirstTry, Clicking, SameTry, Unpressed
<1>6. Listened'
  BY <1>1, ResolveAt DEF ClickInv, Listened, Unarmed, Unheard, SameListener
<1>7. Proven'
  BY <1>1, ResolveAt DEF ClickInv, Proven, SameFate
<1>8. Repeats'
  BY <1>1, ResolveAt DEF ClickInv, Repeats, Clicking, BoundIsNew, Plain, SameListener, SameTry, Unpressed
<1>9. Journalled'
  BY <1>1, ResolveAt DEF ClickInv, Journalled, InPress, JournalKnows, Unpressed
<1>10. Background'
  BY <1>1, ResolveAt DEF ClickInv, Background, InPress
<1>11. PressedOnce'
  BY <1>1, ResolveAt DEF ClickInv, ClickTypeOK, PressedOnce, FirstTry, Repeats, Plain, Unpressed
<1>12. ProvenIsTrue'
  BY <1>1, ResolveAt DEF ClickInv, ClickTypeOK, ProvenIsTrue, Counted, FirstTry, Repeats, BoundIsNew,
         SameListener, Unpressed
<1>13. QED
  BY <1>2, <1>3, <1>4, <1>5, <1>6, <1>7, <1>8, <1>9, <1>10, <1>11, <1>12 DEF ClickInv

LEMMA ResolveLocatorKeeps ==
    ASSUME ClickConstants, ClickInv, ResolveLocator
    PROVE  ClickInv'
<1>1. ClickTypeOK
  BY DEF ClickInv
<1>2. ClickTypeOK'
  BY <1>1, ResolveLocatorAt DEF ClickTypeOK, Unpressed
<1>3. Counted'
  BY <1>1, ResolveLocatorAt DEF ClickInv, Counted, Unpressed
<1>4. Lines'
  BY <1>1, ResolveLocatorAt DEF ClickInv, Lines, Clicking, SameFate, SameTry
<1>5. FirstTry'
  BY <1>1, ResolveLocatorAt DEF ClickInv, FirstTry, Clicking, SameTry, Unpressed
<1>6. Listened'
  BY <1>1, ResolveLocatorAt DEF ClickInv, Listened, Unarmed, Unheard, SameListener
<1>7. Proven'
  BY <1>1, ResolveLocatorAt DEF ClickInv, Proven, SameFate
<1>8. Repeats'
  BY <1>1, ResolveLocatorAt DEF ClickInv, ClickTypeOK, Repeats, Counted, Clicking, BoundIsNew, SameTry,
         Unpressed
<1>9. Journalled'
  BY <1>1, ResolveLocatorAt DEF ClickInv, Journalled, InPress, JournalKnows, Unpressed
<1>10. Background'
  BY <1>1, ResolveLocatorAt DEF ClickInv, Background, InPress
<1>11. PressedOnce'
  BY <1>1, ResolveLocatorAt DEF ClickInv, PressedOnce, FirstTry, Repeats, Unpressed
<1>12. ProvenIsTrue'
  BY <1>1, ResolveLocatorAt DEF ClickInv, ClickTypeOK, ProvenIsTrue, Counted, FirstTry, Repeats, Unpressed
<1>13. QED
  BY <1>2, <1>3, <1>4, <1>5, <1>6, <1>7, <1>8, <1>9, <1>10, <1>11, <1>12 DEF ClickInv

LEMMA OcclusionKeeps ==
    ASSUME ClickConstants, ClickInv, Occlusion
    PROVE  ClickInv'
<1>1. ClickTypeOK
  BY DEF ClickInv
<1>2. ClickTypeOK'
  BY <1>1, OcclusionAt DEF ClickTypeOK, Unpressed
<1>3. Counted'
  BY <1>1, OcclusionAt DEF ClickInv, Counted, Unpressed
<1>4. Lines'
  BY <1>1, OcclusionAt DEF ClickInv, Lines, Clicking, SameFate, SameTry
<1>5. FirstTry'
  BY <1>1, OcclusionAt DEF ClickInv, FirstTry, Lines, Unpressed
<1>6. Listened'
  BY <1>1, OcclusionAt DEF ClickInv, Listened, Unarmed, Unheard, SameListener
<1>7. Proven'
  BY <1>1, OcclusionAt DEF ClickInv, ClickTypeOK, Proven, Counted, Lines, FirstTry, BoundIsNew, SameFate,
         Unpressed
<1>8. Repeats'
  BY <1>1, OcclusionAt DEF ClickInv, Repeats, Clicking, SameTry
<1>9. Journalled'
  BY <1>1, OcclusionAt DEF ClickInv, Journalled, InPress, JournalKnows, Unpressed
<1>10. Background'
  BY <1>1, OcclusionAt DEF ClickInv, Background, InPress
<1>11. PressedOnce'
  BY <1>1, OcclusionAt DEF ClickInv, PressedOnce, FirstTry, Repeats, Unpressed
<1>12. ProvenIsTrue'
  BY <1>1, OcclusionAt DEF ClickInv, ClickTypeOK, ProvenIsTrue, Counted, FirstTry, Repeats, Unpressed
<1>13. QED
  BY <1>2, <1>3, <1>4, <1>5, <1>6, <1>7, <1>8, <1>9, <1>10, <1>11, <1>12 DEF ClickInv

LEMMA OptionKeeps ==
    ASSUME ClickConstants, ClickInv, Option
    PROVE  ClickInv'
<1>1. ClickTypeOK
  BY DEF ClickInv
<1>2. ClickTypeOK'
  BY <1>1, OptionAt DEF ClickTypeOK, Unpressed, Pressed
<1>3. Counted'
  BY <1>1, OptionAt DEF ClickInv, ClickTypeOK, Counted, Pressed, Unpressed
<1>4. Lines'
  BY <1>1, OptionAt DEF ClickInv, Lines, Clicking, Pressed, SameFate, SameTry
<1>5. FirstTry'
  BY <1>1, OptionAt DEF ClickInv, ClickTypeOK, FirstTry, Lines, BeforePress, Pressed, Unpressed
<1>6. Listened'
  BY <1>1, OptionAt DEF ClickInv, Listened, Unarmed, Unheard, Pressed, SameListener
<1>7. Proven'
  BY <1>1, OptionAt DEF ClickInv, Proven, Pressed, SameFate
<1>8. Repeats'
  BY <1>1, OptionAt DEF ClickInv, Repeats, Clicking, Pressed, SameTry
<1>9. Journalled'
  BY <1>1, OptionAt DEF ClickInv, Journalled, Lines, InPress, JournalKnows, Pressed
<1>10. Background'
  BY <1>1, OptionAt DEF ClickInv, Background, InPress, Pressed
<1>11. PressedOnce'
  BY <1>1, OptionAt DEF ClickInv, PressedOnce, FirstTry, Repeats, Pressed, Unpressed
<1>12. ProvenIsTrue'
  BY <1>1, OptionAt DEF ClickInv, ProvenIsTrue, Lines, Pressed, SameFate
<1>13. QED
  BY <1>2, <1>3, <1>4, <1>5, <1>6, <1>7, <1>8, <1>9, <1>10, <1>11, <1>12 DEF ClickInv

LEMMA OptionEntersKeeps ==
    ASSUME ClickConstants, ClickInv, OptionEnters
    PROVE  ClickInv'
<1>1. ClickTypeOK
  BY DEF ClickInv
<1>2. ClickTypeOK'
  BY <1>1, OptionEntersAt DEF ClickTypeOK, Unpressed, Pressed, ClickConstants
<1>3. Counted'
  BY <1>1, OptionEntersAt DEF ClickInv, ClickTypeOK, Counted, Pressed, Unpressed
<1>4. Lines'
  BY <1>1, OptionEntersAt DEF ClickInv, Lines, Clicking, Pressed, SameFate, SameTry
<1>5. FirstTry'
  BY <1>1, OptionEntersAt DEF ClickInv, ClickTypeOK, FirstTry, Counted, Lines, Plain, BeforePress, Pressed,
         SameAim, Unpressed
<1>6. Listened'
  BY <1>1, OptionEntersAt DEF ClickInv, Listened, Unarmed, Unheard, Pressed, SameListener
<1>7. Proven'
  BY <1>1, OptionEntersAt DEF ClickInv, Proven, Pressed, SameFate
<1>8. Repeats'
  BY <1>1, OptionEntersAt DEF ClickInv, Repeats, Clicking, Pressed, SameTry
<1>9. Journalled'
  BY <1>1, OptionEntersAt DEF ClickInv, Journalled, Lines, InPress, JournalKnows, Pressed
<1>10. Background'
  BY <1>1, OptionEntersAt DEF ClickInv, Background, InPress, Pressed
<1>11. PressedOnce'
  BY <1>1, OptionEntersAt DEF ClickInv, ClickTypeOK, PressedOnce, Counted, Lines, FirstTry, Plain, Pressed,
         Unpressed
<1>12. ProvenIsTrue'
  BY <1>1, OptionEntersAt DEF ClickInv, ProvenIsTrue, Lines, Pressed, SameFate
<1>13. QED
  BY <1>2, <1>3, <1>4, <1>5, <1>6, <1>7, <1>8, <1>9, <1>10, <1>11, <1>12 DEF ClickInv

LEMMA BindKeeps ==
    ASSUME ClickConstants, ClickInv, Bind
    PROVE  ClickInv'
<1>1. ClickTypeOK
  BY DEF ClickInv
<1>2. ClickTypeOK'
  BY <1>1, BindAt DEF ClickTypeOK, Unpressed
<1>3. Counted'
  BY <1>1, BindAt DEF ClickInv, Counted, Unpressed
<1>4. Lines'
  BY <1>1, BindAt DEF ClickInv, Lines, Clicking, SameListener, SameFate, SameTry, Handle
<1>5. FirstTry'
  BY <1>1, BindAt DEF ClickInv, FirstTry, Lines, Plain, BeforePress, Unpressed, Handle
<1>6. Listened'
  BY <1>1, BindAt DEF ClickInv, Listened, Listening, Unarmed, Unheard, SameListener, SameTry, Handle
<1>7. Proven'
  BY <1>1, BindAt DEF ClickInv, ClickTypeOK, Proven, Counted, FirstTry, Repeats, BoundIsNew,
         BeforePress, SameFate, Unpressed, Handle
<1>8. Repeats'
  BY <1>1, BindAt DEF ClickInv, Repeats, Clicking, SameTry, Handle
<1>9. Journalled'
  BY <1>1, BindAt DEF ClickInv, Journalled, Repeats, Clicking, Listening, InPress, JournalKnows,
         Unpressed
<1>10. Background'
  BY <1>1, BindAt DEF ClickInv, Background, InPress, Handle
<1>11. PressedOnce'
  BY <1>1, BindAt DEF ClickInv, ClickTypeOK, PressedOnce, FirstTry, Repeats, Plain, Unpressed, Handle
<1>12. ProvenIsTrue'
  BY <1>1, BindAt DEF ClickInv, ProvenIsTrue, Lines, SameFate
<1>13. QED
  BY <1>2, <1>3, <1>4, <1>5, <1>6, <1>7, <1>8, <1>9, <1>10, <1>11, <1>12 DEF ClickInv

LEMMA MarkKeeps ==
    ASSUME ClickConstants, ClickInv, Mark
    PROVE  ClickInv'
<1>1. ClickTypeOK
  BY DEF ClickInv
<1>2. ClickTypeOK'
  BY <1>1, MarkAt DEF ClickTypeOK, Unpressed
<1>3. Counted'
  BY <1>1, MarkAt DEF ClickInv, Counted, Unpressed
<1>4. Lines'
  BY <1>1, MarkAt DEF ClickInv, Lines, Clicking, SameListener, SameFate, SameTry
<1>5. FirstTry'
  BY <1>1, MarkAt DEF ClickInv, FirstTry, Lines, Plain, BeforePress, Unpressed
<1>6. Listened'
  BY <1>1, MarkAt DEF ClickInv, Listened, Listening, Unarmed, Unheard, SameListener, SameTry
<1>7. Proven'
  BY <1>1, MarkAt DEF ClickInv, Proven, SameFate
<1>8. Repeats'
  BY <1>1, MarkAt DEF ClickInv, Repeats, Clicking, SameTry
<1>9. Journalled'
  BY <1>1, MarkAt DEF ClickInv, Journalled, InPress, JournalKnows, Unpressed
<1>10. Background'
  BY <1>1, MarkAt DEF ClickInv, Background, InPress
<1>11. PressedOnce'
  BY <1>1, MarkAt DEF ClickInv, ClickTypeOK, PressedOnce, FirstTry, Repeats, Plain, Unpressed
<1>12. ProvenIsTrue'
  BY <1>1, MarkAt DEF ClickInv, ProvenIsTrue, Lines, SameFate
<1>13. QED
  BY <1>2, <1>3, <1>4, <1>5, <1>6, <1>7, <1>8, <1>9, <1>10, <1>11, <1>12 DEF ClickInv

LEMMA ListenKeeps ==
    ASSUME ClickConstants, ClickInv, Listen
    PROVE  ClickInv'
<1>1. ClickTypeOK
  BY DEF ClickInv
<1>2. ClickTypeOK'
  BY <1>1, ListenAt DEF ClickTypeOK, Unpressed
<1>3. Counted'
  BY <1>1, ListenAt DEF ClickInv, Counted, Unpressed
<1>4. Lines'
  BY <1>1, ListenAt DEF ClickInv, Lines, Clicking, SameListener, SameFate, SameTry
<1>5. FirstTry'
  BY <1>1, ListenAt DEF ClickInv, FirstTry, Lines, Plain, BeforePress, Unpressed
<1>6. Listened'
  BY <1>1, ListenAt DEF ClickInv, ClickTypeOK, Listened, Counted, FirstTry, Journalled, Clicking,
         Listening, Unarmed, BoundIsNew, BeforePress, SameListener, SameTry, Unpressed,
         ClickConstants
<1>7. Proven'
  BY <1>1, ListenAt DEF ClickInv, Proven, SameFate
<1>8. Repeats'
  BY <1>1, ListenAt DEF ClickInv, Repeats, Clicking, SameTry
<1>9. Journalled'
  BY <1>1, ListenAt DEF ClickInv, Journalled, Listened, JournalKnows
<1>10. Background'
  BY <1>1, ListenAt DEF ClickInv, Background, InPress
<1>11. PressedOnce'
  BY <1>1, ListenAt DEF ClickInv, ClickTypeOK, PressedOnce, FirstTry, Repeats, Plain, Unpressed
<1>12. ProvenIsTrue'
  BY <1>1, ListenAt DEF ClickInv, ProvenIsTrue, Lines, SameFate
<1>13. QED
  BY <1>2, <1>3, <1>4, <1>5, <1>6, <1>7, <1>8, <1>9, <1>10, <1>11, <1>12 DEF ClickInv

LEMMA LiftKeeps ==
    ASSUME ClickConstants, ClickInv, Lift
    PROVE  ClickInv'
<1>1. ClickTypeOK
  BY DEF ClickInv
<1>2. ClickTypeOK'
  BY <1>1, LiftAt DEF ClickTypeOK, Unpressed
<1>3. Counted'
  BY <1>1, LiftAt DEF ClickInv, Counted, Unpressed
<1>4. Lines'
  BY <1>1, LiftAt DEF ClickInv, Lines, Clicking, SameListener, SameFate, SameTry
<1>5. FirstTry'
  BY <1>1, LiftAt DEF ClickInv, FirstTry, Lines, Plain, BeforePress, Unpressed
<1>6. Listened'
  BY <1>1, LiftAt DEF ClickInv, Listened, Listening, Unarmed, Unheard, BoundIsNew, SameListener,
         SameTry, Unpressed
<1>7. Proven'
  BY <1>1, LiftAt DEF ClickInv, Proven, SameFate
<1>8. Repeats'
  BY <1>1, LiftAt DEF ClickInv, Repeats, Clicking, SameTry
<1>9. Journalled'
  BY <1>1, LiftAt DEF ClickInv, Journalled, Repeats, Clicking, Listening, JournalKnows
<1>10. Background'
  BY <1>1, LiftAt DEF ClickInv, Background, InPress
<1>11. PressedOnce'
  BY <1>1, LiftAt DEF ClickInv, ClickTypeOK, PressedOnce, FirstTry, Repeats, Plain, Unpressed
<1>12. ProvenIsTrue'
  BY <1>1, LiftAt DEF ClickInv, ProvenIsTrue, Lines, SameFate
<1>13. QED
  BY <1>2, <1>3, <1>4, <1>5, <1>6, <1>7, <1>8, <1>9, <1>10, <1>11, <1>12 DEF ClickInv

LEMMA HandlePressKeeps ==
    ASSUME ClickConstants, ClickInv, HandlePress
    PROVE  ClickInv'
<1>1. ClickTypeOK
  BY DEF ClickInv
<1>2. ClickTypeOK'
  BY <1>1, HandlePressAt DEF ClickTypeOK, Unpressed
<1>3. Counted'
  BY <1>1, HandlePressAt DEF ClickInv, Counted, Unpressed
<1>4. Lines'
  BY <1>1, HandlePressAt DEF ClickInv, Lines, Clicking, SameListener, SameFate, SameTry
<1>5. FirstTry'
  BY <1>1, HandlePressAt DEF ClickInv, FirstTry, Lines, Plain, BeforePress, Unpressed
<1>6. Listened'
  BY <1>1, HandlePressAt DEF ClickInv, Listened, Listening, Unarmed, Unheard, BoundIsNew, SameListener,
         SameTry, Unpressed
<1>7. Proven'
  BY <1>1, HandlePressAt DEF ClickInv, ClickTypeOK, Proven, Counted, FirstTry, Repeats, BoundIsNew,
         BeforePress, SameFate, Unpressed
<1>8. Repeats'
  BY <1>1, HandlePressAt DEF ClickInv, Repeats, Clicking, SameTry
<1>9. Journalled'
  BY <1>1, HandlePressAt DEF ClickInv, Journalled, Repeats, Clicking, Listening, InPress, JournalKnows
<1>10. Background'
  BY <1>1, HandlePressAt DEF ClickInv, Background, InPress
<1>11. PressedOnce'
  BY <1>1, HandlePressAt DEF ClickInv, ClickTypeOK, PressedOnce, FirstTry, Repeats, Plain, Unpressed
<1>12. ProvenIsTrue'
  BY <1>1, HandlePressAt DEF ClickInv, ProvenIsTrue, Lines, SameFate
<1>13. QED
  BY <1>2, <1>3, <1>4, <1>5, <1>6, <1>7, <1>8, <1>9, <1>10, <1>11, <1>12 DEF ClickInv

LEMMA FramePressKeeps ==
    ASSUME ClickConstants, ClickInv, FramePress
    PROVE  ClickInv'
<1>1. ClickTypeOK
  BY DEF ClickInv
<1>2. ClickTypeOK'
  BY <1>1, FramePressAt DEF ClickTypeOK, Unpressed
<1>3. Counted'
  BY <1>1, FramePressAt DEF ClickInv, Counted, Unpressed
<1>4. Lines'
  BY <1>1, FramePressAt DEF ClickInv, Lines, Clicking, SameFate, SameTry
<1>5. FirstTry'
  BY <1>1, FramePressAt DEF ClickInv, FirstTry, Lines, Plain, BeforePress, Unpressed
<1>6. Listened'
  BY <1>1, FramePressAt DEF ClickInv, Listened, Listening, Unarmed, Unheard, BoundIsNew, SameListener,
         SameTry, Unpressed
<1>7. Proven'
  BY <1>1, FramePressAt DEF ClickInv, Proven, SameFate
<1>8. Repeats'
  BY <1>1, FramePressAt DEF ClickInv, Repeats, Clicking, SameTry
<1>9. Journalled'
  BY <1>1, FramePressAt DEF ClickInv, Journalled, Repeats, Clicking, Listening, InPress, JournalKnows
<1>10. Background'
  BY <1>1, FramePressAt DEF ClickInv, Background, InPress
<1>11. PressedOnce'
  BY <1>1, FramePressAt DEF ClickInv, ClickTypeOK, PressedOnce, FirstTry, Repeats, Plain, Unpressed
<1>12. ProvenIsTrue'
  BY <1>1, FramePressAt DEF ClickInv, ProvenIsTrue, Lines, SameFate
<1>13. QED
  BY <1>2, <1>3, <1>4, <1>5, <1>6, <1>7, <1>8, <1>9, <1>10, <1>11, <1>12 DEF ClickInv

LEMMA PressKeeps ==
    ASSUME ClickConstants, ClickInv, Press
    PROVE  ClickInv'
<1>1. ClickTypeOK
  BY DEF ClickInv
<1>2. ClickTypeOK'
  BY <1>1, PressAt DEF ClickTypeOK, Unpressed, Pressed
<1>3. Counted'
  BY <1>1, PressAt DEF ClickInv, ClickTypeOK, Counted, Pressed, Unpressed
<1>4. Lines'
  BY <1>1, PressAt DEF ClickInv, Lines, Clicking, Pressed, SameFate, SameTry
<1>5. FirstTry'
  BY <1>1, PressAt DEF ClickInv, ClickTypeOK, FirstTry, Lines, Plain, BeforePress, Pressed, Unpressed
<1>6. Listened'
  BY <1>1, PressAt DEF ClickInv, ActType, Listened, Listening, Unarmed, Unheard, BoundIsNew, Pressed,
         SameListener, SameTry, Unpressed
<1>7. Proven'
  BY <1>1, PressAt DEF ClickInv, Proven, Pressed, SameFate
<1>8. Repeats'
  BY <1>1, PressAt DEF ClickInv, Repeats, Clicking, Pressed, SameTry
<1>9. Journalled'
  BY <1>1, PressAt DEF ClickInv, Journalled, Repeats, Clicking, Listening, InPress, JournalKnows,
         Pressed
<1>10. Background'
  BY <1>1, PressAt DEF ClickInv, Background, InPress, Pressed
<1>11. PressedOnce'
  BY <1>1, PressAt DEF ClickInv, PressedOnce, FirstTry, Repeats, Plain, BeforePress, Pressed, Unpressed
<1>12. ProvenIsTrue'
  BY <1>1, PressAt DEF ClickInv, ProvenIsTrue, Lines, Pressed, SameFate
<1>13. QED
  BY <1>2, <1>3, <1>4, <1>5, <1>6, <1>7, <1>8, <1>9, <1>10, <1>11, <1>12 DEF ClickInv

LEMMA StrikeKeeps ==
    ASSUME ClickConstants, ClickInv, Strike
    PROVE  ClickInv'
<1>1. ClickTypeOK
  BY DEF ClickInv
<1>2. ClickTypeOK'
  BY <1>1, StrikeAt DEF ClickTypeOK, Unpressed, Pressed
<1>3. Counted'
  BY <1>1, StrikeAt DEF ClickInv, ClickTypeOK, Counted, Pressed, Unpressed
<1>4. Lines'
  BY <1>1, StrikeAt DEF ClickInv, Lines, Clicking, Pressed, SameListener, SameAim, SameFate, SameTry,
         Aimed
<1>5. FirstTry'
  BY <1>1, StrikeAt DEF ClickInv, FirstTry, Lines, Plain, BeforePress, Pressed, Unpressed, Aimed
<1>6. Listened'
  BY <1>1, StrikeAt DEF ClickInv, ActType, Listened, Lines, Listening, Unarmed, Unheard, BoundIsNew,
         Pressed, SameListener, SameTry, Unpressed, Aimed, ClickConstants
<1>7. Proven'
  BY <1>1, StrikeAt DEF ClickInv, Proven, Pressed, SameFate, Aimed
<1>8. Repeats'
  BY <1>1, StrikeAt DEF ClickInv, Repeats, Clicking, Pressed, SameTry, Aimed
<1>9. Journalled'
  BY <1>1, StrikeAt DEF ClickInv, Journalled, Repeats, Clicking, Listening, InPress, JournalKnows,
         Pressed
<1>10. Background'
  BY <1>1, StrikeAt DEF ClickInv, Background, InPress, Pressed, Aimed
<1>11. PressedOnce'
  BY <1>1, StrikeAt DEF ClickInv, PressedOnce, FirstTry, Repeats, Plain, BeforePress, Pressed,
         Unpressed, Aimed
<1>12. ProvenIsTrue'
  BY <1>1, StrikeAt DEF ClickInv, ProvenIsTrue, Lines, Pressed, SameFate
<1>13. QED
  BY <1>2, <1>3, <1>4, <1>5, <1>6, <1>7, <1>8, <1>9, <1>10, <1>11, <1>12 DEF ClickInv

LEMMA MouseStrikesKeeps ==
    ASSUME ClickConstants, ClickInv, MouseStrikes
    PROVE  ClickInv'
<1>1. ClickTypeOK
  BY DEF ClickInv
<1>2. ClickTypeOK'
  BY <1>1, MouseStrikesAt DEF ClickTypeOK, Unpressed, Pressed
<1>3. Counted'
  BY <1>1, MouseStrikesAt DEF ClickInv, ClickTypeOK, Counted, Pressed, Unpressed
<1>4. Lines'
  BY <1>1, MouseStrikesAt DEF ClickInv, Lines, Clicking, Pressed, SameFate, SameTry
<1>5. FirstTry'
  BY <1>1, MouseStrikesAt DEF ClickInv, FirstTry, Lines, Plain, BeforePress, Pressed, Unpressed
<1>6. Listened'
  BY <1>1, MouseStrikesAt DEF ClickInv, ActType, Listened, Lines, Listening, Unarmed, Unheard, BoundIsNew,
         Pressed, SameListener, SameTry, Unpressed
<1>7. Proven'
  BY <1>1, MouseStrikesAt DEF ClickInv, Proven, Pressed, SameFate
<1>8. Repeats'
  BY <1>1, MouseStrikesAt DEF ClickInv, Repeats, Clicking, Pressed, SameTry
<1>9. Journalled'
  BY <1>1, MouseStrikesAt DEF ClickInv, Journalled, Repeats, Clicking, Listening, InPress, JournalKnows,
         Pressed
<1>10. Background'
  BY <1>1, MouseStrikesAt DEF ClickInv, Background, InPress, Pressed
<1>11. PressedOnce'
  BY <1>1, MouseStrikesAt DEF ClickInv, PressedOnce, FirstTry, Repeats, Plain, BeforePress, Pressed, Unpressed
<1>12. ProvenIsTrue'
  BY <1>1, MouseStrikesAt DEF ClickInv, ProvenIsTrue, Lines, Pressed, SameFate
<1>13. QED
  BY <1>2, <1>3, <1>4, <1>5, <1>6, <1>7, <1>8, <1>9, <1>10, <1>11, <1>12 DEF ClickInv

LEMMA SwitchReadsKeeps ==
    ASSUME ClickConstants, ClickInv, SwitchReads
    PROVE  ClickInv'
<1>1. ClickTypeOK
  BY DEF ClickInv
<1>2. ClickTypeOK'
  BY <1>1, SwitchReadsAt DEF ClickTypeOK, Unpressed, Pressed
<1>3. Counted'
  BY <1>1, SwitchReadsAt DEF ClickInv, ClickTypeOK, Counted, Pressed, Unpressed
<1>4. Lines'
  BY <1>1, SwitchReadsAt DEF ClickInv, Lines, Clicking, Pressed, SameListener, SameFate, SameTry
<1>5. FirstTry'
  BY <1>1, SwitchReadsAt DEF ClickInv, FirstTry, Counted, Lines, Plain, BeforePress, Pressed, Unpressed
<1>6. Listened'
  BY <1>1, SwitchReadsAt DEF ClickInv, ClickTypeOK, ActType, Listened, Lines, Listening, Unarmed, Unheard,
         BoundIsNew, Pressed, SameListener, SameTry, Unpressed, ClickConstants
<1>7. Proven'
  BY <1>1, SwitchReadsAt DEF ClickInv, Proven, Pressed, SameFate
<1>8. Repeats'
  BY <1>1, SwitchReadsAt DEF ClickInv, Repeats, Clicking, Pressed, SameTry
<1>9. Journalled'
  BY <1>1, SwitchReadsAt DEF ClickInv, Journalled, Repeats, Clicking, Listening, InPress, JournalKnows,
         Pressed
<1>10. Background'
  BY <1>1, SwitchReadsAt DEF ClickInv, Background, InPress, Pressed
<1>11. PressedOnce'
  BY <1>1, SwitchReadsAt DEF ClickInv, ClickTypeOK, PressedOnce, Counted, Lines, FirstTry, Pressed, Unpressed
<1>12. ProvenIsTrue'
  BY <1>1, SwitchReadsAt DEF ClickInv, ProvenIsTrue, Lines, Pressed, SameFate
<1>13. QED
  BY <1>2, <1>3, <1>4, <1>5, <1>6, <1>7, <1>8, <1>9, <1>10, <1>11, <1>12 DEF ClickInv

LEMMA BackupKeeps ==
    ASSUME ClickConstants, ClickInv, Backup
    PROVE  ClickInv'
<1>1. ClickTypeOK
  BY DEF ClickInv
<1>2. ClickTypeOK'
  BY <1>1, BackupAt DEF ClickTypeOK, Unpressed, Pressed
<1>3. Counted'
  BY <1>1, BackupAt DEF ClickInv, ClickTypeOK, Counted, Pressed, Unpressed
<1>4. Lines'
  BY <1>1, BackupAt DEF ClickInv, Lines, Clicking, Pressed, SameListener, SameFate, SameTry
<1>5. FirstTry'
  BY <1>1, BackupAt DEF ClickInv, FirstTry, Lines, Plain, BeforePress, Pressed
<1>6. Listened'
  BY <1>1, BackupAt DEF ClickInv, ClickTypeOK, ActType, Listened, Lines, Listening, Unarmed, Unheard,
         BoundIsNew, Pressed, SameListener, SameTry, Unpressed, ClickConstants
<1>7. Proven'
  BY <1>1, BackupAt DEF ClickInv, Proven, Pressed, SameFate
<1>8. Repeats'
  BY <1>1, BackupAt DEF ClickInv, Repeats, Clicking, Pressed, SameTry
<1>9. Journalled'
  BY <1>1, BackupAt DEF ClickInv, Journalled, Repeats, Clicking, Listening, InPress, JournalKnows,
         Pressed
<1>10. Background'
  BY <1>1, BackupAt DEF ClickInv, Background, InPress, Pressed
<1>11. PressedOnce'
  BY <1>1, BackupAt DEF ClickInv, PressedOnce, Lines, Pressed
<1>12. ProvenIsTrue'
  BY <1>1, BackupAt DEF ClickInv, ProvenIsTrue, Lines, Pressed, SameFate
<1>13. QED
  BY <1>2, <1>3, <1>4, <1>5, <1>6, <1>7, <1>8, <1>9, <1>10, <1>11, <1>12 DEF ClickInv

LEMMA StruckKeeps ==
    ASSUME ClickConstants, ClickInv, Struck
    PROVE  ClickInv'
<1>1. ClickTypeOK
  BY DEF ClickInv
<1>2. ClickTypeOK'
  BY <1>1, StruckAt DEF ClickTypeOK, Unpressed, ClickConstants
<1>3. Counted'
  BY <1>1, StruckAt DEF ClickInv, Counted, Unpressed
<1>4. Lines'
  BY <1>1, StruckAt DEF ClickInv, Lines, Clicking, SameListener, SameFate, SameTry
<1>5. FirstTry'
  BY <1>1, StruckAt DEF ClickInv, ClickTypeOK, FirstTry, Lines, Plain, BeforePress, Unpressed
<1>6. Listened'
  BY <1>1, StruckAt DEF ClickInv, Listened, Listening, Unarmed, Unheard, BoundIsNew, SameListener,
         SameTry, Unpressed
<1>7. Proven'
  BY <1>1, StruckAt DEF ClickInv, Proven, SameFate
<1>8. Repeats'
  BY <1>1, StruckAt DEF ClickInv, Repeats, Clicking, SameTry
<1>9. Journalled'
  BY <1>1, StruckAt DEF ClickInv, Journalled, Repeats, Clicking, Listening, InPress, JournalKnows
<1>10. Background'
  BY <1>1, StruckAt DEF ClickInv, Background, InPress
<1>11. PressedOnce'
  BY <1>1, StruckAt DEF ClickInv, ClickTypeOK, PressedOnce, FirstTry, Repeats, Plain, Unpressed
<1>12. ProvenIsTrue'
  BY <1>1, StruckAt DEF ClickInv, ProvenIsTrue, Lines, SameFate
<1>13. QED
  BY <1>2, <1>3, <1>4, <1>5, <1>6, <1>7, <1>8, <1>9, <1>10, <1>11, <1>12 DEF ClickInv

LEMMA JsClickKeeps ==
    ASSUME ClickConstants, ClickInv, JsClick
    PROVE  ClickInv'
<1>1. ClickTypeOK
  BY DEF ClickInv
<1>2. ClickTypeOK'
  BY <1>1, JsClickAt DEF ClickTypeOK, Unpressed, Pressed
<1>3. Counted'
  BY <1>1, JsClickAt DEF ClickInv, ClickTypeOK, Counted, Pressed, Unpressed
<1>4. Lines'
  BY <1>1, JsClickAt DEF ClickInv, Lines, Repeats, Pressed, SameListener, Handle
<1>5. FirstTry'
  BY <1>1, JsClickAt DEF ClickInv, FirstTry, Lines, Clicking, Pressed, SameTry, Handle
<1>6. Listened'
  BY <1>1, JsClickAt DEF ClickInv, Listened, Lines, Clicking, Listening, Unheard, Pressed, SameListener,
         Handle
<1>7. Proven'
  BY <1>1, JsClickAt DEF ClickInv, ClickTypeOK, Proven, Counted, Lines, Repeats, BoundIsNew, Pressed,
         SameFate, Unpressed, Handle
<1>8. Repeats'
  BY <1>1, JsClickAt DEF ClickInv, Repeats, Lines, Pressed, Handle
<1>9. Journalled'
  BY <1>1, JsClickAt DEF ClickInv, Journalled, Lines, Repeats, JournalKnows, Pressed
<1>10. Background'
  BY <1>1, JsClickAt DEF ClickInv, Background, InPress, Pressed, Handle
<1>11. PressedOnce'
  BY <1>1, JsClickAt DEF ClickInv, ClickTypeOK, PressedOnce, Lines, Repeats, BoundIsNew, Pressed,
         SameListener, Unpressed, Handle
<1>12. ProvenIsTrue'
  BY <1>1, JsClickAt DEF ClickInv, ProvenIsTrue, Lines, Pressed, SameFate
<1>13. QED
  BY <1>2, <1>3, <1>4, <1>5, <1>6, <1>7, <1>8, <1>9, <1>10, <1>11, <1>12 DEF ClickInv

LEMMA RestoreKeeps ==
    ASSUME ClickConstants, ClickInv, Restore
    PROVE  ClickInv'
<1>1. ClickTypeOK
  BY DEF ClickInv
<1>2. ClickTypeOK'
  BY <1>1, RestoreAt DEF ClickTypeOK, Unpressed, Restored
<1>3. Counted'
  BY <1>1, RestoreAt DEF ClickInv, Counted, Unpressed
<1>4. Lines'
  BY <1>1, RestoreAt DEF ClickInv, Lines, SameListener, SameFate, Restored
<1>5. FirstTry'
  BY <1>1, RestoreAt DEF ClickInv, FirstTry, Lines, Plain, BeforePress, Unpressed, Restored
<1>6. Listened'
  BY <1>1, RestoreAt DEF ClickInv, Listened, Listening, Unarmed, Unheard, BoundIsNew, SameListener,
         SameTry, Unpressed, Restored
<1>7. Proven'
  BY <1>1, RestoreAt DEF ClickInv, Proven, BoundIsNew, SameListener, SameFate, Unpressed, Restored
<1>8. Repeats'
  BY <1>1, RestoreAt DEF ClickInv, Repeats, Clicking, SameTry, Restored
<1>9. Journalled'
  BY <1>1, RestoreAt DEF ClickInv, Journalled, Repeats, Clicking, Listening, InPress, JournalKnows
<1>10. Background'
  BY <1>1, RestoreAt DEF ClickInv, Background, Restored
<1>11. PressedOnce'
  BY <1>1, RestoreAt DEF ClickInv, ClickTypeOK, PressedOnce, FirstTry, Repeats, Plain, Unpressed,
         Restored
<1>12. ProvenIsTrue'
  BY <1>1, RestoreAt DEF ClickInv, ProvenIsTrue, Lines, SameFate
<1>13. QED
  BY <1>2, <1>3, <1>4, <1>5, <1>6, <1>7, <1>8, <1>9, <1>10, <1>11, <1>12 DEF ClickInv

LEMMA AnswerKeeps ==
    ASSUME ClickConstants, ClickInv, Answer
    PROVE  ClickInv'
<1>1. ClickTypeOK
  BY DEF ClickInv
<1>2. ClickTypeOK'
  BY <1>1, AnswerAt DEF ClickTypeOK, Unpressed
<1>3. Counted'
  BY <1>1, AnswerAt DEF ClickInv, Counted, Unpressed
<1>4. Lines'
  BY <1>1, AnswerAt DEF ClickInv, Lines
<1>5. FirstTry'
  BY <1>1, AnswerAt DEF ClickInv, FirstTry, Clicking, Plain, SameTry, Unpressed
<1>6. Listened'
  BY <1>1, AnswerAt DEF ClickInv, Listened, Listening, Unheard, BoundIsNew, SameListener, SameTry,
         Unpressed
<1>7. Proven'
  BY <1>1, AnswerAt DEF ClickInv, Proven, BoundIsNew, SameListener, Unpressed
<1>8. Repeats'
  BY <1>1, AnswerAt DEF ClickInv, Repeats, Clicking, SameTry
<1>9. Journalled'
  BY <1>1, AnswerAt DEF ClickInv, Journalled, InPress, JournalKnows, Unpressed
<1>10. Background'
  BY <1>1, AnswerAt DEF ClickInv, Background
<1>11. PressedOnce'
  BY <1>1, AnswerAt DEF ClickInv, PressedOnce, SameListener, Unpressed
<1>12. ProvenIsTrue'
  BY <1>1, AnswerAt DEF ClickInv, ProvenIsTrue
<1>13. QED
  BY <1>2, <1>3, <1>4, <1>5, <1>6, <1>7, <1>8, <1>9, <1>10, <1>11, <1>12 DEF ClickInv

LEMMA JudgeClickKeeps ==
    ASSUME ClickConstants, ClickInv, JudgeClick
    PROVE  ClickInv'
<1>1. ClickTypeOK
  BY DEF ClickInv
<1>2. /\ act' \in ActType /\ act.pc = "judge" /\ Unpressed /\ act'.bound = act.bound /\ SameAim
      /\ UNCHANGED <<control, seen, names, fit, page, dialog, moves, inert, journal, errors>>
      /\ \/ /\ act'.pc = "over" /\ SameTry /\ SameListener /\ act'.err = act.err
            /\ act'.status = Told /\ act'.answer \in {act.answer, "stale", "error"}
         \/ /\ Clicking /\ control.via # "drive" /\ Told = "not_dispatched"
            /\ act.err = "intercepts" /\ act'.pc = "start" /\ act'.try = "js"
            /\ act'.armed = FALSE /\ act'.err = "none" /\ act'.status = "none"
            /\ act'.answer = act.answer
  BY <1>1, JudgeClickAt
<1>3. ClickTypeOK'
  BY <1>1, <1>2 DEF ClickTypeOK, Unpressed
<1>4. Counted'
  BY <1>2, ToldIs DEF ClickInv, Counted, Unpressed
<1>5. Lines'
  BY <1>2, ToldIs DEF ClickInv, Lines
<1>6. FirstTry'
  BY <1>2, ToldIs DEF ClickInv, FirstTry, Clicking, Plain, BeforePress, SameTry, Unpressed
<1>7. Listened'
  BY <1>2, ToldIs DEF ClickInv, Listened, Listening, Unarmed, Unheard, BoundIsNew,
         SameListener, SameTry, Unpressed
<1>8. Proven'
  BY <1>2, ToldIs DEF ClickInv, ClickTypeOK, Proven, Listened, BoundIsNew, Unpressed
<1>9. Repeats'
 <2>1. /\ act.err = "intercepts" /\ control.via # "drive" /\ act.pc = "judge"
          => act.status = "none"
   BY DEF ClickInv, Proven
 <2>2. ASSUME Clicking, control.via # "drive", Told = "not_dispatched", act.err = "intercepts",
              act'.pc = "start", act'.try = "js"
       PROVE  Repeats'
  <3>1. act.status = "none" /\ Listening /\ Unheard
    BY <1>1, <1>2, <2>1, <2>2, ToldIs DEF ClickTypeOK
  <3>2. /\ control.active /\ journal = "attempted" /\ act.bound \in Nodes
        /\ control.is # "option" => BoundIsNew
        /\ control.via = "locator" => presses = 0
    BY <3>1 DEF ClickInv, Listened, Listening, Unheard
  <3>3. control.is # "option" /\ (Plain => presses <= 1)
    BY <1>1, <2>2 DEF ClickInv, FirstTry, ClickTypeOK, ClickConstants
  <3>4. BoundIsNew' /\ Plain' = Plain
    BY <1>2, <3>2, <3>3 DEF BoundIsNew, Unpressed, Plain
  <3>5. QED
    BY <1>2, <2>2, <3>2, <3>3, <3>4 DEF Repeats, Unpressed
 <2>3. QED
   BY <1>2, <2>2 DEF ClickInv, Repeats, Clicking, SameTry
<1>10. Journalled'
  BY <1>2, ToldIs DEF ClickInv, Journalled, InPress, JournalKnows, Unpressed
<1>11. Background'
  BY <1>2, ToldIs DEF ClickInv, Background, InPress
<1>12. PressedOnce'
  BY <1>2, ToldIs DEF ClickInv, PressedOnce, Unpressed
<1>13. ProvenIsTrue'
  BY <1>2, ToldIs DEF ClickInv, ProvenIsTrue, Lines
<1>14. QED
  BY <1>3, <1>4, <1>5, <1>6, <1>7, <1>8, <1>9, <1>10, <1>11, <1>12, <1>13 DEF ClickInv

LEMMA PageMovesKeeps ==
    ASSUME ClickConstants, ClickInv, PageMoves
    PROVE  ClickInv'
<1>1. ClickTypeOK
  BY DEF ClickInv
<1>2. ClickTypeOK'
  BY <1>1, PageMovesAt DEF ClickTypeOK
<1>3. Counted'
  BY <1>1, PageMovesAt DEF ClickInv, Counted
<1>4. Lines'
  BY <1>1, PageMovesAt DEF ClickInv, Lines, Clicking, SameListener, SameAim, SameFate, SameTry
<1>5. FirstTry'
  BY <1>1, PageMovesAt DEF ClickInv, FirstTry, Clicking, Plain, SameAim, SameTry
<1>6. Listened'
  BY <1>1, PageMovesAt DEF ClickInv, Listened, Listening, Unheard, BoundIsNew, SameListener, SameTry
<1>7. Proven'
  BY <1>1, PageMovesAt DEF ClickInv, Proven, BoundIsNew, SameListener, SameFate
<1>8. Repeats'
  BY <1>1, PageMovesAt DEF ClickInv, Repeats, Clicking, BoundIsNew, Plain, SameListener, SameTry
<1>9. Journalled'
  BY <1>1, PageMovesAt DEF ClickInv, Journalled, Repeats, Clicking, Listening, JournalKnows
<1>10. Background'
  BY <1>1, PageMovesAt DEF ClickInv, Background
<1>11. PressedOnce'
  BY <1>1, PageMovesAt DEF ClickInv, PressedOnce, SameListener
<1>12. ProvenIsTrue'
  BY <1>1, PageMovesAt DEF ClickInv, ProvenIsTrue, SameListener, SameFate
<1>13. QED
  BY <1>2, <1>3, <1>4, <1>5, <1>6, <1>7, <1>8, <1>9, <1>10, <1>11, <1>12 DEF ClickInv

LEMMA ClickStep ==
    ASSUME ClickConstants, ClickInv, ClickSteps
    PROVE  ClickInv'
BY StartKeeps, ResolveKeeps, ResolveLocatorKeeps, OcclusionKeeps, OptionKeeps, OptionEntersKeeps,
   BindKeeps, MarkKeeps, ListenKeeps, LiftKeeps, PressKeeps, HandlePressKeeps, FramePressKeeps,
   StrikeKeeps, MouseStrikesKeeps, SwitchReadsKeeps, BackupKeeps, StruckKeeps, JsClickKeeps,
   RestoreKeeps, JudgeClickKeeps, AnswerKeeps DEF ClickSteps

LEMMA ClickStarts == ClickConstants /\ ClickInit => ClickInv
<1> SUFFICES ASSUME ClickConstants, ClickInit PROVE ClickInv
  OBVIOUS
<1>1. ClickTypeOK
 <2>1. act \in ActType
   BY DEF ClickInit, ActType, ClickPCs, Statuses
 <2>2. fit \in [Nodes -> Fits] /\ clicks \in [Nodes -> Nat]
   BY DEF ClickInit, Fits
 <2>3. QED
   BY <2>1, <2>2 DEF ClickInit, ClickTypeOK, ClickConstants, ControlType
<1>2. Counted /\ Lines /\ FirstTry
  BY DEF ClickInit, Counted, Lines, FirstTry
<1>3. Listened /\ Proven /\ Repeats
  BY DEF ClickInit, Listened, Proven, Repeats, Clicking, Unheard
<1>4. Journalled /\ Background
  BY DEF ClickInit, Journalled, JournalKnows, Background, InPress
<1>5. PressedOnce /\ ProvenIsTrue
  BY DEF ClickInit, PressedOnce, ProvenIsTrue
<1>6. QED
  BY <1>1, <1>2, <1>3, <1>4, <1>5 DEF ClickInv

LEMMA ClickStutters == ClickInv /\ UNCHANGED clickVars => ClickInv'
BY DEF ClickInv, clickVars, ClickTypeOK, Counted, Lines, FirstTry, Listened, Proven, Repeats,
       Journalled, JournalKnows, Background, PressedOnce, ProvenIsTrue, Clicking, Plain, Unheard,
       BoundIsNew, Listening

(* Wherever a click stands, the page counts what the call and its listener  *)
(* know of: nothing is pressed before the listener sits, what it has not    *)
(* heard left its node alone, and a repetition rests on that alone.         *)
THEOREM ClickIsSound == ClickConstants => (ClickSpec => []ClickInv)
<1> SUFFICES ASSUME ClickConstants PROVE ClickSpec => []ClickInv
  OBVIOUS
<1>1. ClickInit => ClickInv
  BY ClickStarts
<1>2. ClickInv /\ [ClickNext]_clickVars => ClickInv'
  BY ClickStep, PageMovesKeeps, ClickStutters DEF ClickNext
<1>3. QED
  BY <1>1, <1>2, PTL DEF ClickSpec

(* A click that landed is not repeated and not called undispatched, the     *)
(* journal knew of it before, and a dialog keeps its background inert       *)
(* (bot/act/act.ts, bot/browser.ts).                                        *)
THEOREM ClickIsSafe == ClickConstants => (ClickSpec => []ClickSafe)
<1> SUFFICES ASSUME ClickConstants PROVE ClickSpec => []ClickSafe
  OBVIOUS
<1>1. ClickInv => ClickSafe
 <2>1. ClickInv => NotDispatchedIsTrue
   BY DEF ClickInv, Proven, NotDispatchedIsTrue, BoundIsNew
 <2>2. ClickInv => BackgroundStaysInert
   BY DEF ClickInv, Background, BackgroundStaysInert, InPress
 <2>3. QED
   BY <2>1, <2>2 DEF ClickInv, ClickSafe, Journalled
<1>2. QED
  BY <1>1, ClickIsSound, PTL

-----------------------------------------------------------------------------
(* OAuthLogin: the sign-ins of a session. *)

Keys == Calls \X Pages \X Nat
RunPCs == {"recover", "click", "race", "poll", "tell", "consent", "tap", "end"}
Hows == {"none", "ok", "awaiting", "challenge", "onboarding", "denied", "failed", "not_attempted"}
RunType ==
    [pc : RunPCs, call : Calls,
     product : Pages, recovery : MayPage, popup : MayPage, provider : MayPage,
     consent : BOOLEAN, started : BOOLEAN, expected : BOOLEAN, shopNav : BOOLEAN,
     popNav : BOOLEAN, returned : MayPage, onward : MayPage, denied : BOOLEAN,
     pending : BOOLEAN, late : BOOLEAN, key : {<<>>} \cup (Calls \X Pages \X Nat \X Screens),
     controls : 1..2, how : Hows]
AttemptType ==
    [call : Calls, product : Pages, productDoc : Nat, provider : MayPage, doc : Int,
     epoch : {<<>>} \cup Keys]
TallyType ==
    [told : SUBSET Keys, returns : SUBSET Calls, denials : SUBSET Calls, repeated : BOOLEAN,
     skipped : BOOLEAN, dead : BOOLEAN, bare : BOOLEAN, hurried : BOOLEAN]
LoginTypes ==
    /\ LoginTypeOK
    /\ run = NoRun \/ run \in RunType
    /\ attempt = NoAttempt \/ attempt \in AttemptType
    /\ tally \in TallyType

Durable(k) == IF k.provider = None THEN k.recovery ELSE k.product
PopupOf(c) == <<"popup", c>>
RecoveryOf(c) == <<"recovery", c>>

(* A call has no tab before it opens one. *)
Unopened == \A c \in Calls :
    outcome[c] = "none" /\ (run = NoRun \/ run.call # c) =>
        at[PopupOf(c)] = "none" /\ at[RecoveryOf(c)] = "none"

RunTabs == run # NoRun =>
    /\ outcome[run.call] = "none"
    /\ run.shopNav \/ run.popNav => run.started
    /\ run.product \notin {PopupOf(run.call), RecoveryOf(run.call)}
    /\ run.popup # None => run.popup = PopupOf(run.call)
    /\ run.recovery # None => run.recovery = RecoveryOf(run.call) /\ Open(run.recovery)
    /\ run.popup = None => at[PopupOf(run.call)] = "none"
    /\ run.recovery = None =>
         /\ at[RecoveryOf(run.call)] = "none" /\ run.pc \in {"recover", "end"}
         /\ run.popup = None /\ ~run.pending
    /\ run.pc = "recover" => run.recovery = None
    /\ run.pc = "end" => run.how # "none"
    /\ run.pc \in {"recover", "click"} => run.popup = None
    /\ run.pc \in {"recover", "click", "race"} => run.provider = None
    /\ run.pc \notin {"recover", "click", "race"} => run.provider = run.popup
    /\ \A p \in Pages : Open(p) => p \in {Product, run.product, run.popup, run.recovery}

RunSlots == run # NoRun =>
    /\ slots.source \in {None, run.product}
    /\ slots.completion # None =>
         /\ run.pc = "end" /\ run.how = "ok"
         /\ slots.completion \in {run.product, run.provider}
    /\ run.pc \in {"recover", "click", "race"} => slots.provider = None
    /\ run.pc \notin {"recover", "click", "race", "end"} => slots.provider # None
    /\ slots.provider # None =>
         /\ slots.provider = Transient(run) /\ slots.product = Durable(run)
         /\ Open(slots.provider) => restore[slots.provider] = slots.product /\ ~slots.closed
         /\ attempt # NoAttempt => attempt.provider = slots.provider

(* A provider that shows is worked on, and gives the page back; or the       *)
(* product is worked on, and the provider's tab is the completed one.        *)
Showing ==
    /\ Open(slots.provider) => slots.page = slots.provider /\ restore[slots.provider] = slots.product
    /\ Open(slots.product) /\ ~Open(slots.provider) => slots.page = slots.product
    /\ slots.source \in {None, slots.product, slots.provider}
Keeping ==
    /\ Open(slots.product) => slots.page = slots.product
    /\ slots.source = slots.provider

IdleSlots == run = NoRun =>
    /\ slots.product = None <=> slots.provider = None
    /\ slots.product = None =>
         \A p \in Pages : Open(p) => p \in {Product, slots.page, slots.source}
    /\ slots.product # None =>
         /\ \A p \in Pages : Open(p) => p \in {Product, slots.product, slots.provider}
         /\ slots.closed => ~Open(slots.provider)
         /\ Showing \/ Keeping

ToldOK == \A k \in tally.told :
    /\ k[3] = doc[k[2]] /\ at[k[2]] # "none"
    /\ Open(k[2]) => screen[k[2]] = "challenge"
    /\ outcome[k[1]] # "none" \/ (run # NoRun /\ run.call = k[1] /\ slots.provider # None)
    /\ attempt # NoAttempt /\ attempt.call = k[1] => attempt.epoch = k /\ attempt.provider = k[2]

AttemptOK == attempt # NoAttempt =>
    /\ run # NoRun => attempt.call = run.call
    /\ run = NoRun => outcome[attempt.call] # "none"

DenialsOK == \A c \in tally.denials :
    outcome[c] = "denied" \/ (run # NoRun /\ run.call = c /\ run.denied)

ReturnsOK ==
    /\ CompletedByReturn
    /\ run # NoRun =>
         /\ run.denied /\ run.pc = "end" => run.how = "denied"
         /\ \/ run.returned # None
            \/ run.shopNav /\ at[run.product] = "return"
            \/ run.popup # None /\ run.popNav /\ at[run.popup] = "return"
            \/ run.how = "ok"
            => run.call \in tally.returns

LoginInv ==
    /\ LoginTypes /\ Unopened /\ RunTabs /\ RunSlots /\ IdleSlots /\ ToldOK /\ AttemptOK
    /\ DenialsOK /\ ReturnsOK /\ OnceEach /\ EndsOnLiveTab

LEMMA TabFacts ==
    ASSUME LoginConstants
    PROVE  /\ None \notin Pages /\ Product \in Pages
           /\ \A c \in Calls : /\ PopupOf(c) \in Pages /\ RecoveryOf(c) \in Pages
                               /\ PopupOf(c) # Product /\ RecoveryOf(c) # Product
                               /\ RecoveryOf(c)[1] = "recovery" /\ PopupOf(c)[1] # "recovery"
           /\ \A c, d \in Calls : /\ PopupOf(c) # RecoveryOf(d)
                                  /\ PopupOf(c) = PopupOf(d) => c = d
                                  /\ RecoveryOf(c) = RecoveryOf(d) => c = d
           /\ 0 \notin Calls /\ Calls \subseteq Nat
<1>1. Cardinality(Calls) \in Nat
  BY FS_CardinalityType DEF LoginConstants
<1>2. Calls \subseteq Nat /\ 0 \notin Calls
  BY <1>1 DEF LoginConstants
<1>3. None \notin Pages /\ Product \in Pages
  BY DEF None, Pages, Product
<1>4. ASSUME NEW c \in Calls
      PROVE  /\ PopupOf(c) \in Pages /\ RecoveryOf(c) \in Pages
             /\ PopupOf(c) # Product /\ RecoveryOf(c) # Product
             /\ RecoveryOf(c)[1] = "recovery" /\ PopupOf(c)[1] # "recovery"
  BY DEF PopupOf, RecoveryOf, Pages, Product
<1>5. ASSUME NEW c \in Calls, NEW d \in Calls
      PROVE  /\ PopupOf(c) # RecoveryOf(d)
             /\ PopupOf(c) = PopupOf(d) => c = d
             /\ RecoveryOf(c) = RecoveryOf(d) => c = d
  BY DEF PopupOf, RecoveryOf
<1>6. QED
  BY <1>2, <1>3, <1>4, <1>5

LEMMA LeastOf ==
    ASSUME NEW T, T \subseteq Nat, T # {}
    PROVE  \E m \in T : \A n \in T : m <= n
<1>1. PICK m \in T : \A n \in T : ~(<<n, m>> \in OpToRel(<, Nat))
  BY WFMin, NatLessThanWellFounded
<1>2. \A n \in T : ~(n < m)
  BY <1>1 DEF OpToRel
<1>3. QED
  BY <1>2

(* Of some tabs one is the newest. *)
LEMMA NewestIs ==
    ASSUME LoginConstants, NEW S \in SUBSET Pages, S # {}
    PROVE  Newest(S) \in S
<1> DEFINE N == Cardinality(Calls)
           T == {N - q[2] : q \in S}
<1>1. N \in Nat
  BY FS_CardinalityType DEF LoginConstants
<1>2. \A q \in Pages : q[2] \in 0..N /\ (q[2] = 0 <=> q = Product)
                       /\ (q # Product => q = <<"popup", q[2]>> \/ q = <<"recovery", q[2]>>)
  BY <1>1 DEF Pages, Product, LoginConstants
<1> HIDE DEF N
<1>3. T \subseteq Nat /\ T # {}
  BY <1>1, <1>2
<1>4. PICK m \in T : \A n \in T : m <= n
 <2> HIDE DEF T
 <2>1. QED
   BY <1>3, LeastOf
<1>6. PICK p \in S : m = N - p[2]
  OBVIOUS
<1>7. \A q \in S : q[2] <= p[2]
 <2> TAKE q \in S
 <2>1. m <= N - q[2]
   BY <1>4
 <2>2. q[2] \in 0..N /\ p[2] \in 0..N
   BY <1>2
 <2>3. QED
   BY <2>1, <2>2, <1>1, <1>6
<1>8. \E r \in S : \A q \in S : q[2] < r[2] \/ (q[2] = r[2] /\ (q = r \/ r[1] = "popup"))
 <2>1. CASE \E r \in S : r[2] = p[2] /\ r[1] = "popup"
   BY <2>1, <1>1, <1>2, <1>7
 <2>2. CASE \A r \in S : r[2] = p[2] => r[1] # "popup"
  <3>1. \A q \in S : q[2] = p[2] => q = p
    BY <2>2, <1>2
  <3>2. QED
    BY <3>1, <1>1, <1>2, <1>7
 <2>3. QED
   BY <2>1, <2>2
<1>9. QED
  BY <1>8 DEF Newest

LEMMA LivePageIs ==
    ASSUME LoginConstants, LoginTypes
    PROVE  LivePage \in Pages /\ (Open(slots.page) => LivePage = slots.page)
<1>1. slots.page \in Pages /\ slots.product \in MayPage
  BY DEF LoginTypes, LoginTypeOK
<1> DEFINE live == {p \in Pages : Open(p)}
           others == {p \in live : at[p] # "provider"}
<1>2. live \in SUBSET Pages /\ others \in SUBSET Pages
  OBVIOUS
<1>3. LivePage = IF live = {} \/ Open(slots.page) THEN slots.page
                 ELSE IF others # {} THEN Newest(others)
                 ELSE IF Open(slots.product) THEN slots.product ELSE Newest(live)
  BY DEF LivePage
<1>4. Open(slots.product) => slots.product \in Pages
  BY <1>1 DEF Open, MayPage
<1>5. live # {} => Newest(live) \in Pages
  BY <1>2, NewestIs
<1>6. others # {} => Newest(others) \in Pages
  BY <1>2, NewestIs
<1> HIDE DEF live, others
<1>7. QED
  BY <1>1, <1>3, <1>4, <1>5, <1>6

LEMMA RunIs ==
    ASSUME LoginConstants
    PROVE  (\A r \in RunType : r # NoRun) /\ (\A a \in AttemptType : a # NoAttempt)
<1>1. \A r \in RunType : r # NoRun
  BY DEF RunType, RunPCs, NoRun
<1>2. \A a \in AttemptType : a # NoAttempt
  BY TabFacts DEF AttemptType, NoAttempt
<1>3. QED
  BY <1>1, <1>2

(* What most steps of a call leave of its locals. *)
SameRun(k, r) ==
    /\ r.call = k.call /\ r.product = k.product /\ r.recovery = k.recovery /\ r.popup = k.popup
    /\ r.shopNav = k.shopNav /\ r.popNav = k.popNav /\ (k.started => r.started)
    /\ r.returned = k.returned /\ r.denied = k.denied

LEMMA LeavesIs ==
    ASSUME NEW k \in RunType, NEW how \in Hows, NEW pending \in BOOLEAN
    PROVE  LET r == Leaves(k, how, pending)
           IN /\ r \in RunType /\ SameRun(k, r) /\ r.pc = "end" /\ r.provider = k.provider
              /\ r.how = (IF k.denied THEN "denied" ELSE how)
              /\ r.pending = (pending /\ ~k.denied)
<1> DEFINE h == IF k.denied THEN "denied" ELSE how
           r == [k EXCEPT !.pc = "end", !.how = h, !.pending = pending /\ ~k.denied]
<1>1. "end" \in RunPCs /\ h \in Hows
  BY DEF RunPCs, Hows
<1>2. Leaves(k, how, pending) = r
  BY DEF Leaves
<1> HIDE DEF h
<1>3. r \in RunType
  BY <1>1 DEF RunType
<1>4. /\ SameRun(k, r) /\ r.pc = "end" /\ r.provider = k.provider
      /\ r.how = h /\ r.pending = (pending /\ ~k.denied)
  BY DEF RunType, SameRun
<1> HIDE DEF r
<1>5. QED
  BY <1>2, <1>3, <1>4 DEF h

LEMMA OwnIs ==
    ASSUME LoginTypes, attempt # NoAttempt, Transient(run) \in Pages
    PROVE  /\ Own(attempt) \in AttemptType /\ Own(attempt).call = attempt.call
           /\ Own(attempt).epoch = attempt.epoch /\ Own(attempt).provider = Transient(run)
<1>1. attempt \in AttemptType /\ doc[Transient(run)] \in Nat /\ Transient(run) \in MayPage
  BY DEF LoginTypes, LoginTypeOK, MayPage
<1> DEFINE tab == Transient(run)
           d == doc[tab]
           a == [attempt EXCEPT !.provider = tab, !.doc = d]
<1>2. Own(attempt) = a /\ tab \in MayPage /\ d \in Int
  BY <1>1 DEF Own
<1> HIDE DEF tab, d
<1>3. a \in AttemptType /\ a.call = attempt.call /\ a.epoch = attempt.epoch /\ a.provider = tab
  BY <1>1, <1>2 DEF AttemptType
<1>4. QED
  BY <1>2, <1>3 DEF tab

(* A step of a call that touches no tab, no slot and no evidence. *)
QuietStep ==
    /\ run # NoRun /\ run.pc \notin {"recover", "end"}
    /\ run' \in RunType /\ SameRun(run, run')
    /\ run'.pc \notin {"recover", "click"}
    /\ run'.pc = "race" => run'.provider = None /\ run.pc = "click"
    /\ run'.pc # "race" => run'.provider = run.popup
    /\ run'.pc \notin {"race", "end"} => run.pc \notin {"click", "race"}
    /\ run'.pc # "end" => run'.how = run.how
    /\ run'.pc = "end" => run'.how \notin {"ok", "none"} /\ (run.denied => run'.how = "denied")
    /\ UNCHANGED <<at, screen, doc, slots, restore, outcome, turns>>
    /\ tally' \in TallyType /\ tally'.told = tally.told /\ tally'.returns = tally.returns
    /\ tally'.denials = tally.denials /\ tally'.repeated = tally.repeated /\ tally'.dead = tally.dead
    /\ \/ UNCHANGED attempt
       \/ /\ attempt # NoAttempt /\ attempt' \in AttemptType /\ run.pc = "poll"
          /\ attempt'.call = attempt.call /\ attempt'.epoch = attempt.epoch
          /\ attempt'.provider = Transient(run)

LEMMA QuietKeeps ==
    ASSUME LoginConstants, LoginInv, QuietStep
    PROVE  LoginInv'
<1>0. run' # NoRun /\ (attempt' = NoAttempt <=> attempt = NoAttempt)
  BY RunIs DEF QuietStep
<1>1. LoginTypes'
 <2>1. run' \in RunType /\ run'.pc \in RunPCs
   BY DEF QuietStep, RunType
 <2>2. attempt' = NoAttempt \/ attempt' \in AttemptType
   BY DEF QuietStep, LoginInv, LoginTypes
 <2>3. attempt' = NoAttempt \/ attempt'.call \in Calls
   BY <2>2 DEF AttemptType
 <2>4. QED
   BY <2>1, <2>2, <2>3 DEF QuietStep, LoginInv, LoginTypes, LoginTypeOK, RunPCs
<1>2. Unopened'
  BY <1>0 DEF QuietStep, SameRun, LoginInv, Unopened
<1>3. RunTabs'
  BY <1>0 DEF QuietStep, SameRun, LoginInv, RunTabs, Open
<1>4. RunSlots'
 <2>1. run.pc \in {"click", "race"} \/ run'.provider = run.provider
   BY DEF QuietStep, LoginInv, RunTabs
 <2>2. Transient(run) = slots.provider /\ slots.provider # None => Transient(run') = slots.provider
                                                             /\ Durable(run') = Durable(run)
   BY <2>1 DEF QuietStep, SameRun, LoginInv, RunSlots, Transient, Durable
 <2>3. slots.provider # None /\ attempt' # NoAttempt => attempt'.provider = slots.provider
   BY <1>0 DEF QuietStep, LoginInv, RunSlots
 <2>4. QED
   BY <2>2, <2>3, <1>0 DEF QuietStep, SameRun, LoginInv, RunSlots, Open
<1>5. IdleSlots'
  BY <1>0 DEF IdleSlots
<1>6. ToldOK'
 <2>1. ASSUME NEW k \in tally.told, attempt' # NoAttempt, attempt'.call = k[1]
       PROVE  attempt'.epoch = k /\ attempt'.provider = k[2]
  <3>1. attempt.call = k[1] /\ attempt.epoch = k /\ attempt.provider = k[2]
        /\ attempt'.epoch = attempt.epoch
    BY <2>1, <1>0 DEF QuietStep, LoginInv, ToldOK
  <3>2. slots.provider # None
   <4>1. run # NoRun /\ attempt # NoAttempt
     BY <2>1, <1>0 DEF QuietStep
   <4>2. attempt.call = run.call /\ outcome[run.call] = "none"
     BY <4>1 DEF LoginInv, AttemptOK, RunTabs
   <4>3. QED
     BY <4>2, <3>1, <2>1 DEF LoginInv, ToldOK
  <3>3. QED
    BY <3>1, <3>2, <1>0 DEF QuietStep, LoginInv, RunSlots
 <2>2. QED
   BY <2>1, <1>0 DEF QuietStep, SameRun, LoginInv, ToldOK, Open
<1>7. AttemptOK'
  BY <1>0 DEF QuietStep, SameRun, LoginInv, AttemptOK
<1>8. DenialsOK'
  BY <1>0 DEF QuietStep, SameRun, LoginInv, DenialsOK
<1>9. ReturnsOK'
  BY <1>0 DEF QuietStep, SameRun, LoginInv, ReturnsOK, CompletedByReturn
<1>10. OnceEach' /\ EndsOnLiveTab'
  BY DEF QuietStep, LoginInv, OnceEach, EndsOnLiveTab
<1>11. QED
  BY <1>1, <1>2, <1>3, <1>4, <1>5, <1>6, <1>7, <1>8, <1>9, <1>10 DEF LoginInv

LEMMA RunFacts ==
    ASSUME LoginConstants, LoginInv, run # NoRun
    PROVE  /\ run \in RunType /\ run.pc \in RunPCs /\ run.call \in Calls /\ run.how \in Hows
           /\ run.product \in Pages /\ Transient(run) \in Pages
           /\ {run.recovery, run.popup, run.provider, run.returned, run.onward} \subseteq MayPage
           /\ {run.shopNav, run.popNav, run.denied, run.pending, run.started} \subseteq BOOLEAN
<1>1. run \in RunType
  BY DEF LoginInv, LoginTypes
<1>2. /\ run.pc \in RunPCs /\ run.call \in Calls /\ run.how \in Hows /\ run.product \in Pages
      /\ {run.recovery, run.popup, run.provider, run.returned, run.onward} \subseteq MayPage
      /\ {run.shopNav, run.popNav, run.denied, run.pending, run.started} \subseteq BOOLEAN
  BY <1>1 DEF RunType
<1>3. Transient(run) \in Pages
  BY <1>2 DEF Transient, MayPage
<1>4. QED
  BY <1>1, <1>2, <1>3

LEMMA ClickKeeps ==
    ASSUME LoginConstants, LoginInv, run # NoRun, Click
    PROVE  LoginInv'
<1>1. run \in RunType /\ run.pc = "click" /\ run.popup = None /\ run.provider = None
  BY RunFacts DEF Click, LoginInv, RunTabs
<1>2. CASE run' = [run EXCEPT !.pc = "race", !.started = TRUE]
 <2> DEFINE r == [run EXCEPT !.pc = "race", !.started = TRUE]
 <2>1. "race" \in RunPCs
   BY DEF RunPCs
 <2>2. r \in RunType
   BY <1>1, <2>1 DEF RunType
 <2>3. SameRun(run, r) /\ r.pc = "race" /\ r.provider = None /\ r.how = run.how
   BY <1>1 DEF RunType, SameRun
 <2>4. run' = r
   BY <1>2
 <2> HIDE DEF r
 <2>5. QuietStep
   BY <1>1, <2>2, <2>3, <2>4 DEF QuietStep, Click, Elsewhere, LoginInv, LoginTypes
 <2>6. QED
   BY <2>5, QuietKeeps
<1>3. CASE run' = Leaves(run, "not_attempted", FALSE)
 <2>1. "not_attempted" \in Hows /\ FALSE \in BOOLEAN
   BY DEF Hows
 <2>2. /\ run' \in RunType /\ SameRun(run, run') /\ run'.pc = "end" /\ run'.provider = None
       /\ run'.how = (IF run.denied THEN "denied" ELSE "not_attempted")
   BY <1>1, <1>3, <2>1, LeavesIs
 <2>3. QuietStep
   BY <1>1, <2>2 DEF QuietStep, Click, Elsewhere, LoginInv, LoginTypes
 <2>4. QED
   BY <2>3, QuietKeeps
<1>4. QED
  BY <1>2, <1>3 DEF Click

(* The steps that leave a call for its closing block. *)
LEMMA LeavingKeeps ==
    ASSUME LoginConstants, LoginInv, run # NoRun, run.pc \notin {"recover", "click", "end"},
           NEW k \in RunType, SameRun(run, k), k.provider = run.popup,
           NEW how \in Hows \ {"ok", "none"}, NEW pending \in BOOLEAN, run' = Leaves(k, how, pending),
           Elsewhere, UNCHANGED <<slots, attempt, outcome, tally>>
    PROVE  LoginInv'
<1>1. /\ run' \in RunType /\ SameRun(k, run') /\ run'.pc = "end" /\ run'.provider = k.provider
      /\ run'.how = (IF k.denied THEN "denied" ELSE how)
  BY LeavesIs
<1>2. SameRun(run, run') /\ k.denied = run.denied
  BY <1>1 DEF SameRun
<1>3. QuietStep
  BY <1>1, <1>2 DEF QuietStep, Elsewhere, LoginInv, LoginTypes
<1>4. QED
  BY <1>3, QuietKeeps

LEMMA ClickFailsKeeps ==
    ASSUME LoginConstants, LoginInv, run # NoRun, ClickFails
    PROVE  LoginInv'
<1>1. run \in RunType /\ run.pc = "race" /\ run.popup \in MayPage
  BY RunFacts DEF ClickFails
<1> DEFINE k == [run EXCEPT !.provider = run.popup]
           lost == run.popup # None \/ run.shopNav
<1>2. k \in RunType
  BY <1>1 DEF RunType
<1>3. SameRun(run, k) /\ k.provider = run.popup
  BY <1>1 DEF RunType, SameRun
<1>4. run' = Leaves(k, "failed", lost) /\ "failed" \in Hows \ {"ok", "none"} /\ lost \in BOOLEAN
  BY RunFacts DEF ClickFails, Hows
<1> HIDE DEF k, lost
<1>5. QED
  BY <1>1, <1>2, <1>3, <1>4, LeavingKeeps DEF ClickFails

LEMMA OnboardsKeeps ==
    ASSUME LoginConstants, LoginInv, run # NoRun, Onboards
    PROVE  LoginInv'
<1>1. run \in RunType /\ run.pc = "poll" /\ SameRun(run, run) /\ run.provider = run.popup
  BY RunFacts DEF Onboards, Polling, SameRun, LoginInv, RunTabs
<1>2. "onboarding" \in Hows \ {"ok", "none"} /\ TRUE \in BOOLEAN
  BY DEF Hows
<1>3. QED
  BY <1>1, <1>2, LeavingKeeps DEF Onboards

LEMMA ChallengeEndsKeeps ==
    ASSUME LoginConstants, LoginInv, run # NoRun, ChallengeEnds
    PROVE  LoginInv'
<1>1. run \in RunType /\ run.pc = "tell" /\ SameRun(run, run) /\ run.provider = run.popup
  BY RunFacts DEF ChallengeEnds, SameRun, LoginInv, RunTabs
<1>2. "challenge" \in Hows \ {"ok", "none"} /\ TRUE \in BOOLEAN
  BY DEF Hows
<1>3. QED
  BY <1>1, <1>2, LeavingKeeps DEF ChallengeEnds

LEMMA TapKeeps ==
    ASSUME LoginConstants, LoginInv, run # NoRun, Tap
    PROVE  LoginInv'
<1>1. run \in RunType /\ run.pc = "tap" /\ run.provider = run.popup
  BY RunFacts DEF Tap, LoginInv, RunTabs
<1>2. CASE run' = [run EXCEPT !.pc = "poll"]
 <2> DEFINE r == [run EXCEPT !.pc = "poll"]
 <2>1. "poll" \in RunPCs
   BY DEF RunPCs
 <2>2. r \in RunType
   BY <1>1, <2>1 DEF RunType
 <2>3. SameRun(run, r) /\ r.pc = "poll" /\ r.provider = run.provider /\ r.how = run.how
   BY <1>1 DEF RunType, SameRun
 <2>4. run' = r
   BY <1>2
 <2> HIDE DEF r
 <2>5. QuietStep
   BY <1>1, <2>2, <2>3, <2>4 DEF QuietStep, Tap, Elsewhere, LoginInv, LoginTypes
 <2>6. QED
   BY <2>5, QuietKeeps
<1>3. CASE run.controls > 1 /\ run' = [run EXCEPT !.pc = "consent", !.controls = @ - 1]
 <2> DEFINE n == run.controls - 1
            r == [run EXCEPT !.pc = "consent", !.controls = n]
 <2>1. "consent" \in RunPCs
   BY DEF RunPCs
 <2>2. run.controls \in 1..2
   BY <1>1 DEF RunType
 <2>3. n \in 1..2 /\ run' = r
   BY <1>3, <2>2
 <2> HIDE DEF n
 <2>4. r \in RunType
   BY <1>1, <2>1, <2>3 DEF RunType
 <2>5. SameRun(run, r) /\ r.pc = "consent" /\ r.provider = run.provider /\ r.how = run.how
   BY <1>1 DEF RunType, SameRun
 <2> HIDE DEF r
 <2>6. QuietStep
   BY <1>1, <2>3, <2>4, <2>5 DEF QuietStep, Tap, Elsewhere, LoginInv, LoginTypes
 <2>7. QED
   BY <2>6, QuietKeeps
<1>4. QED
  BY <1>2, <1>3 DEF Tap

LEMMA ClaimKeeps ==
    ASSUME LoginConstants, LoginInv, run # NoRun, Claim
    PROVE  LoginInv'
<1>1. run \in RunType /\ run.pc = "consent" /\ run.provider = run.popup
  BY RunFacts DEF Claim, LoginInv, RunTabs
<1>2. tally \in TallyType
  BY DEF LoginInv, LoginTypes
<1>3. PICK pc \in {"tap", "poll"} : run' = [run EXCEPT !.pc = pc]
  BY DEF Claim
<1> DEFINE r == [run EXCEPT !.pc = pc]
<1>4. pc \in RunPCs
  BY DEF RunPCs
<1>5. r \in RunType
  BY <1>1, <1>4 DEF RunType
<1>6. SameRun(run, r) /\ r.pc = pc /\ r.provider = run.provider /\ r.how = run.how
  BY <1>1 DEF RunType, SameRun
<1>7. run' = r
  BY <1>3
<1> HIDE DEF r
<1>8. /\ tally' \in TallyType /\ tally'.told = tally.told /\ tally'.returns = tally.returns
      /\ tally'.denials = tally.denials /\ tally'.dead = tally.dead
      /\ tally'.repeated = tally.repeated
 <2>1. CASE Claimable(run.key)
  <3>1. ~(run.key \in phases) /\ tally.repeated \in BOOLEAN
    BY <2>1, <1>2 DEF Claimable, TallyType
  <3>2. tally' = [tally EXCEPT !.repeated = tally.repeated]
    BY <2>1, <3>1 DEF Claim
  <3>3. QED
    BY <3>1, <3>2, <1>2 DEF TallyType
 <2>2. CASE ~Claimable(run.key)
  <3> DEFINE s == tally.skipped \/ (run.key \in phases /\ Owned(run.key[2]))
  <3>1. tally' = [tally EXCEPT !.skipped = s] /\ s \in BOOLEAN
    BY <2>2, <1>2 DEF Claim, TallyType
  <3> HIDE DEF s
  <3>2. QED
    BY <3>1, <1>2 DEF TallyType
 <2>3. QED
   BY <2>1, <2>2
<1>9. UNCHANGED <<at, screen, doc, slots, restore, outcome, turns, attempt>>
  BY DEF Claim
<1>10. QuietStep
  BY <1>1, <1>5, <1>6, <1>7, <1>8, <1>9 DEF QuietStep
<1>11. QED
  BY <1>10, QuietKeeps

LEMMA LingersKeeps ==
    ASSUME LoginConstants, LoginInv, run # NoRun, Lingers
    PROVE  LoginInv'
<1>1. run \in RunType /\ run.pc = "poll" /\ run.provider = run.popup /\ Transient(run) \in Pages
  BY RunFacts DEF Lingers, Polling, LoginInv, RunTabs
<1> DEFINE r == [run EXCEPT !.pending = TRUE]
<1>2. r \in RunType
  BY <1>1 DEF RunType
<1>3. SameRun(run, r) /\ r.pc = "poll" /\ r.provider = run.provider /\ r.how = run.how
  BY <1>1 DEF RunType, SameRun
<1>4. run' = r
  BY DEF Lingers
<1> HIDE DEF r
<1>5. attempt' = Own(attempt)
  BY DEF Lingers
<1>6. QuietStep
 <2>1. CASE attempt = NoAttempt
   BY <2>1, <1>1, <1>2, <1>3, <1>4, <1>5 DEF QuietStep, Own, Lingers, Elsewhere, LoginInv, LoginTypes
 <2>2. CASE attempt # NoAttempt
  <3>1. /\ attempt' \in AttemptType /\ attempt'.call = attempt.call
        /\ attempt'.epoch = attempt.epoch /\ attempt'.provider = Transient(run)
    BY <2>2, <1>1, <1>5, OwnIs DEF LoginInv
  <3>2. QED
    BY <2>2, <3>1, <1>1, <1>2, <1>3, <1>4 DEF QuietStep, Lingers, Elsewhere, LoginInv, LoginTypes
 <2>3. QED
   BY <2>1, <2>2
<1>7. QED
  BY <1>6, QuietKeeps

LEMMA ConsentsKeeps ==
    ASSUME LoginConstants, LoginInv, run # NoRun, Consents
    PROVE  LoginInv'
<1>1. run \in RunType /\ run.pc = "poll" /\ run.provider = run.popup /\ Transient(run) \in Pages
      /\ run.call \in Calls
  BY RunFacts DEF Consents, Polling, LoginInv, RunTabs
<1>2. attempt # NoAttempt /\ attempt' = Own(attempt)
  BY DEF Consents
<1>3. /\ attempt' \in AttemptType /\ attempt'.call = attempt.call
      /\ attempt'.epoch = attempt.epoch /\ attempt'.provider = Transient(run)
  BY <1>1, <1>2, OwnIs DEF LoginInv
<1>4. slots.page \in Pages /\ doc[slots.page] \in Nat /\ screen[slots.page] \in Screens
  BY DEF LoginInv, LoginTypes, LoginTypeOK
<1> DEFINE key == <<run.call, slots.page, doc[slots.page], screen[slots.page]>>
<1>5. key \in {<<>>} \cup (Calls \X Pages \X Nat \X Screens)
  BY <1>1, <1>4
<1>6. PICK n \in 1..2 : run' = [run EXCEPT !.pc = "consent", !.key = key, !.controls = n]
  BY DEF Consents
<1> HIDE DEF key
<1> DEFINE r == [run EXCEPT !.pc = "consent", !.key = key, !.controls = n]
<1>7. "consent" \in RunPCs
  BY DEF RunPCs
<1>8. r \in RunType
  BY <1>1, <1>5, <1>7 DEF RunType
<1>9. SameRun(run, r) /\ r.pc = "consent" /\ r.provider = run.provider /\ r.how = run.how
  BY <1>1 DEF RunType, SameRun
<1>10. run' = r
  BY <1>6
<1> HIDE DEF r
<1>11. QuietStep
  BY <1>1, <1>2, <1>3, <1>8, <1>9, <1>10 DEF QuietStep, Consents, Elsewhere, LoginInv, LoginTypes
<1>12. QED
  BY <1>11, QuietKeeps

-----------------------------------------------------------------------------
(* The steps with effects of their own. *)

LEMMA StartLoginKeeps ==
    ASSUME LoginConstants, LoginInv, NEW c \in Calls, StartLogin(c)
    PROVE  LoginInv'
<1>1. /\ run = NoRun /\ outcome[c] = "none" /\ slots.source \in {None, slots.page}
      /\ UNCHANGED <<at, screen, doc, restore, tally, turns>>
  BY DEF StartLogin
<1>2. CASE ~Open(slots.page) \/ Pends
 <2>1. UNCHANGED <<slots, attempt, phases, run>>
       /\ \E how \in {"refused", "failed"} : outcome' = [outcome EXCEPT ![c] = how]
   BY <1>2 DEF StartLogin
 <2>2. /\ outcome' \in [Calls -> {"none", "ok", "awaiting", "challenge", "onboarding", "denied",
                                  "failed", "refused", "not_attempted"}]
       /\ \A d \in Calls : d # c => outcome'[d] = outcome[d]
       /\ outcome'[c] \notin {"none", "ok", "denied"}
   BY <2>1 DEF LoginInv, LoginTypes, LoginTypeOK
 <2>3. LoginTypes' /\ Unopened'
   BY <1>1, <2>1, <2>2 DEF LoginInv, LoginTypes, LoginTypeOK, Unopened
 <2>4. RunTabs' /\ RunSlots' /\ IdleSlots' /\ ReturnsOK'
   BY <1>1, <2>1, <2>2
      DEF LoginInv, RunTabs, RunSlots, IdleSlots, ReturnsOK, CompletedByReturn, Open, Showing,
          Keeping
 <2>5. ToldOK' /\ AttemptOK' /\ DenialsOK'
  <3>1. \A k \in tally.told : k[1] \in Calls
    BY DEF LoginInv, LoginTypes, TallyType, Keys
  <3>2. attempt # NoAttempt => attempt.call \in Calls
    BY DEF LoginInv, LoginTypes, AttemptType
  <3>3. tally.denials \subseteq Calls
    BY DEF LoginInv, LoginTypes, TallyType
  <3>4. QED
    BY <1>1, <2>1, <2>2, <3>1, <3>2, <3>3 DEF LoginInv, ToldOK, AttemptOK, DenialsOK, Open
 <2>6. OnceEach' /\ EndsOnLiveTab'
   BY <1>1 DEF LoginInv, OnceEach, EndsOnLiveTab
 <2>7. QED
   BY <2>3, <2>4, <2>5, <2>6 DEF LoginInv
<1>3. CASE Open(slots.page) /\ ~Pends
 <2>1. /\ slots' = [slots EXCEPT !.product = slots.page, !.provider = None, !.closed = FALSE,
                                 !.completion = None]
       /\ attempt' = [call |-> c, product |-> slots.page, productDoc |-> doc[slots.page],
                      provider |-> None, doc |-> -1, epoch |-> <<>>]
       /\ UNCHANGED outcome
   BY <1>3 DEF StartLogin
 <2>2. PICK consent \in BOOLEAN :
         run' = [pc |-> "recover", call |-> c, product |-> slots.page, recovery |-> None,
                 popup |-> None, provider |-> None, consent |-> consent,
                 started |-> FALSE, expected |-> FALSE, shopNav |-> FALSE,
                 popNav |-> FALSE, returned |-> None, onward |-> None,
                 denied |-> FALSE, pending |-> FALSE, late |-> FALSE,
                 key |-> <<>>, controls |-> 1, how |-> "none"]
   BY <1>3 DEF StartLogin
 <2>3. /\ slots.page \in Pages /\ slots.source \in MayPage /\ doc[slots.page] \in Nat
       /\ None \in MayPage
   BY DEF LoginInv, LoginTypes, LoginTypeOK, MayPage
 <2>4. run' \in RunType
  <3>1. "recover" \in RunPCs /\ "none" \in Hows
    BY DEF RunPCs, Hows
  <3>2. QED
    BY <2>2, <2>3, <3>1 DEF RunType
 <2>5. /\ run'.pc = "recover" /\ run'.call = c /\ run'.product = slots.page
       /\ run'.recovery = None /\ run'.popup = None /\ run'.provider = None
       /\ run'.returned = None /\ ~run'.shopNav /\ ~run'.popNav /\ ~run'.denied
       /\ ~run'.pending /\ run'.how = "none"
   BY <2>2
 <2>6. /\ attempt' \in AttemptType /\ attempt'.call = c /\ attempt'.epoch = <<>>
       /\ attempt'.provider = None
   BY <2>1, <2>3 DEF AttemptType
 <2>7. /\ slots' \in [page : Pages, product : MayPage, provider : MayPage,
                      closed : BOOLEAN, completion : MayPage, source : MayPage]
       /\ slots'.provider = None /\ slots'.completion = None /\ slots'.source = slots.source
       /\ slots'.page = slots.page
   BY <2>1, <2>3 DEF LoginInv, LoginTypes, LoginTypeOK, MayPage
 <2>8. run' # NoRun /\ attempt' # NoAttempt
   BY <2>4, <2>6, RunIs
 <2>9. LoginTypes'
  <3>1. attempt'.call \in Calls /\ run'.pc \in RunPCs
    BY <2>6, <2>4 DEF RunType
  <3>2. QED
    BY <1>1, <2>1, <2>4, <2>6, <2>7, <3>1 DEF LoginInv, LoginTypes, LoginTypeOK, RunPCs
 <2>10. Unopened'
   BY <1>1, <2>1, <2>5 DEF LoginInv, Unopened
 <2>11. RunTabs'
  <3>1. slots.page \notin {PopupOf(c), RecoveryOf(c)}
        /\ at[PopupOf(c)] = "none" /\ at[RecoveryOf(c)] = "none"
    BY <1>1, <1>3 DEF LoginInv, Unopened, Open, Urls
  <3>2. ~Open(None)
    BY DEF Open
  <3>3. \A p \in Pages : Open(p) => p \in {Product, slots.page}
   <4>1. CASE slots.product = None
     BY <4>1, <1>1, <3>2 DEF LoginInv, IdleSlots
   <4>2. CASE slots.product # None /\ Showing
     BY <4>2, <1>1, <1>3, <3>2 DEF LoginInv, IdleSlots, Showing, Pends
   <4>3. CASE slots.product # None /\ Keeping
     BY <4>3, <1>1, <1>3, <3>2 DEF LoginInv, IdleSlots, Keeping, Pends
   <4>4. QED
     BY <4>1, <4>2, <4>3, <1>1 DEF LoginInv, IdleSlots
  <3>4. QED
    BY <1>1, <2>1, <2>5, <3>1, <3>3 DEF RunTabs, Open
 <2>12. RunSlots'
   BY <1>1, <2>5, <2>7 DEF RunSlots
 <2>13. IdleSlots'
   BY <2>8 DEF IdleSlots
 <2>14. ToldOK' /\ AttemptOK'
   BY <1>1, <2>1, <2>5, <2>6, <2>8 DEF LoginInv, ToldOK, AttemptOK, Open
 <2>15. DenialsOK' /\ ReturnsOK'
   BY <1>1, <2>1, <2>5, <2>8 DEF LoginInv, DenialsOK, ReturnsOK, CompletedByReturn
 <2>16. OnceEach' /\ EndsOnLiveTab'
   BY <1>1 DEF LoginInv, OnceEach, EndsOnLiveTab
 <2>17. QED
   BY <2>9, <2>10, <2>11, <2>12, <2>13, <2>14, <2>15, <2>16 DEF LoginInv
<1>4. QED
  BY <1>2, <1>3

LEMMA RecoverKeeps ==
    ASSUME LoginConstants, LoginInv, run # NoRun, Recover
    PROVE  LoginInv'
<1> DEFINE rec == RecoveryOf(run.call)
<1>1. /\ run \in RunType /\ run.pc = "recover" /\ run.call \in Calls /\ rec \in Pages
      /\ run.recovery = None /\ run.popup = None /\ run.provider = None /\ ~run.pending
      /\ at[rec] = "none" /\ rec # run.product /\ rec # Product
      /\ UNCHANGED <<screen, doc, slots, restore, attempt, phases, outcome, tally, turns>>
  BY RunFacts, TabFacts DEF Recover, LoginInv, RunTabs
<1>2. "failed" \in Hows /\ "click" \in RunPCs /\ FALSE \in BOOLEAN
  BY DEF Hows, RunPCs
<1>3. /\ run' \in RunType /\ run'.call = run.call /\ run'.product = run.product
      /\ run'.popup = None /\ run'.provider = None /\ run'.shopNav = run.shopNav
      /\ run'.popNav = run.popNav /\ (run.started => run'.started)
      /\ run'.returned = run.returned /\ run'.denied = run.denied /\ ~run'.pending
      /\ \/ run'.pc = "click" /\ run'.how = run.how
         \/ run'.pc = "end" /\ run'.how \notin {"ok", "none"} /\ (run.denied => run'.how = "denied")
      /\ \/ at' = [at EXCEPT ![rec] = "app"] /\ run'.recovery = rec
         \/ UNCHANGED at /\ run'.recovery = None /\ run'.pc = "end"
 <2>1. CASE run' = Leaves(run, "failed", FALSE) /\ UNCHANGED at
  <3>1. LET r == Leaves(run, "failed", FALSE)
        IN /\ r \in RunType /\ SameRun(run, r) /\ r.pc = "end" /\ r.provider = run.provider
           /\ r.how = (IF run.denied THEN "denied" ELSE "failed")
           /\ r.pending = (FALSE /\ ~run.denied)
    BY <1>1, <1>2, LeavesIs
  <3>2. QED
    BY <2>1, <3>1, <1>1 DEF SameRun
 <2>2. CASE at' = [at EXCEPT ![rec] = "app"]
            /\ \E ok \in BOOLEAN :
                 LET k == [run EXCEPT !.recovery = rec]
                 IN run' = IF ok THEN [k EXCEPT !.pc = "click"] ELSE Leaves(k, "failed", FALSE)
  <3> DEFINE k == [run EXCEPT !.recovery = rec]
             s == [k EXCEPT !.pc = "click"]
  <3>1. k \in RunType
    BY <1>1 DEF RunType, MayPage
  <3>2. /\ k.call = run.call /\ k.product = run.product /\ k.popup = None /\ k.provider = None
        /\ k.recovery = rec /\ k.shopNav = run.shopNav /\ k.popNav = run.popNav
        /\ k.started = run.started /\ k.returned = run.returned /\ k.denied = run.denied
        /\ k.pending = run.pending /\ k.how = run.how
    BY <1>1 DEF RunType
  <3>3. run' = s \/ run' = Leaves(k, "failed", FALSE)
    BY <2>2
  <3>4. s \in RunType
    BY <3>1, <1>2 DEF RunType
  <3>5. /\ s.call = k.call /\ s.product = k.product /\ s.popup = k.popup
        /\ s.provider = k.provider /\ s.recovery = k.recovery /\ s.shopNav = k.shopNav
        /\ s.popNav = k.popNav /\ s.started = k.started /\ s.returned = k.returned
        /\ s.denied = k.denied /\ s.pending = k.pending /\ s.how = k.how /\ s.pc = "click"
    BY <3>1 DEF RunType
  <3> HIDE DEF s, k
  <3>6. CASE run' = s
    BY <3>6, <3>2, <3>4, <3>5, <2>2, <1>1
  <3>7. CASE run' = Leaves(k, "failed", FALSE)
   <4>1. LET r == Leaves(k, "failed", FALSE)
         IN /\ r \in RunType /\ SameRun(k, r) /\ r.pc = "end" /\ r.provider = k.provider
            /\ r.how = (IF k.denied THEN "denied" ELSE "failed")
            /\ r.pending = (FALSE /\ ~k.denied)
     BY <3>1, <1>2, LeavesIs
   <4>2. QED
     BY <4>1, <3>7, <3>2, <2>2, <1>1 DEF SameRun
  <3>8. QED
    BY <3>3, <3>6, <3>7
 <2>3. QED
   BY <2>1, <2>2 DEF Recover, RecoveryOf
<1>4. run' # NoRun
  BY <1>3, RunIs
<1>5. /\ at' \in [Pages -> Urls \cup {"none", "closed"}]
      /\ \A p \in Pages : p # rec => at'[p] = at[p]
      /\ at'[rec] \in {"none", "app"}
      /\ run'.recovery # None => at'[rec] = "app"
      /\ run'.recovery = None => at'[rec] = "none"
 <2>1. at \in [Pages -> Urls \cup {"none", "closed"}] /\ rec # None
   BY <1>1, TabFacts DEF LoginInv, LoginTypes, LoginTypeOK
 <2>2. QED
   BY <2>1, <1>1, <1>3 DEF Urls
<1>6. LoginTypes'
 <2>1. run'.pc \in RunPCs
   BY <1>3 DEF RunType
 <2>2. QED
   BY <1>1, <1>3, <1>5, <2>1 DEF LoginInv, LoginTypes, LoginTypeOK, RunPCs
<1>7. Unopened'
 <2>1. \A c \in Calls : PopupOf(c) \in Pages /\ RecoveryOf(c) \in Pages /\ PopupOf(c) # rec
                        /\ (RecoveryOf(c) = rec => c = run.call)
   BY <1>1, TabFacts
 <2>2. QED
   BY <2>1, <1>1, <1>3, <1>4, <1>5 DEF LoginInv, Unopened
<1>8. PopupOf(run.call) \in Pages /\ PopupOf(run.call) # rec /\ rec # None
  BY <1>1, TabFacts
<1>9. RunTabs'
 <2>1. \A p \in Pages : Open(p)' => (p = rec /\ run'.recovery = rec) \/ Open(p)
   BY <1>5, <1>3, <1>8 DEF Open, Urls
 <2>2. run'.recovery # None => Open(rec)'
   BY <1>3, <1>5, <1>8 DEF Open, Urls
 <2>3. QED
   BY <2>1, <2>2, <1>1, <1>3, <1>4, <1>5, <1>8 DEF LoginInv, RunTabs
<1>10. RunSlots'
  BY <1>1, <1>3, <1>4 DEF LoginInv, RunSlots
<1>11. IdleSlots'
  BY <1>4 DEF IdleSlots
<1>12. ToldOK'
 <2>1. \A k \in tally.told : k[2] \in Pages /\ at[k[2]] # "none"
   BY DEF LoginInv, LoginTypes, TallyType, Keys, ToldOK
 <2>2. \A k \in tally.told : k[2] # rec /\ (Open(k[2])' <=> Open(k[2]))
   BY <2>1, <1>1, <1>5 DEF Open
 <2>3. QED
   BY <2>1, <2>2, <1>1, <1>3, <1>4, <1>5 DEF LoginInv, ToldOK
<1>13. AttemptOK' /\ DenialsOK'
  BY <1>1, <1>3, <1>4 DEF LoginInv, AttemptOK, DenialsOK
<1>14. ReturnsOK'
  BY <1>1, <1>3, <1>4, <1>5, <1>8, RunFacts DEF LoginInv, ReturnsOK, CompletedByReturn
<1>15. OnceEach' /\ EndsOnLiveTab'
  BY <1>1 DEF LoginInv, OnceEach, EndsOnLiveTab
<1>16. QED
  BY <1>6, <1>7, <1>9, <1>10, <1>11, <1>12, <1>13, <1>14, <1>15 DEF LoginInv

LEMMA AdoptKeeps ==
    ASSUME LoginConstants, LoginInv, run # NoRun, Adopt
    PROVE  LoginInv'
<1>1. /\ run \in RunType /\ run.pc = "race" /\ run.provider = None /\ run.popup \in MayPage
      /\ run.product \in Pages /\ run.recovery \in MayPage
      /\ slots.provider = None /\ slots.completion = None
      /\ run.recovery # None /\ slots.source \in {None, run.product}
      /\ UNCHANGED <<at, screen, doc, phases, outcome, tally, turns>>
  BY RunFacts DEF Adopt, LoginInv, RunTabs, RunSlots
<1> DEFINE tab == IF run.popup # None THEN run.popup ELSE run.product
           durable == IF run.popup = None THEN run.recovery ELSE run.product
<1>2. PICK late \in BOOLEAN :
        LET k == [run EXCEPT !.provider = run.popup, !.pc = "poll", !.late = late]
        IN /\ run' = k
           /\ slots' = [slots EXCEPT !.product = durable, !.provider = tab,
                                     !.closed = ~Open(tab), !.page = tab]
           /\ restore' = IF Open(tab) THEN [restore EXCEPT ![tab] = durable] ELSE restore
           /\ attempt' = IF attempt = NoAttempt THEN attempt
                         ELSE [attempt EXCEPT !.provider = tab]
 <2>1. PICK late \in BOOLEAN :
         LET k == [run EXCEPT !.provider = run.popup, !.pc = "poll", !.late = late]
             s == Transient(k)
             d == IF k.provider = None THEN k.recovery ELSE k.product
         IN /\ run' = k
            /\ slots' = [slots EXCEPT !.product = d, !.provider = s,
                                      !.closed = ~Open(s), !.page = s]
            /\ restore' = IF Open(s) THEN [restore EXCEPT ![s] = d] ELSE restore
            /\ attempt' = IF attempt = NoAttempt THEN attempt
                          ELSE [attempt EXCEPT !.provider = s]
   BY DEF Adopt
 <2> DEFINE k == [run EXCEPT !.provider = run.popup, !.pc = "poll", !.late = late]
 <2>2. k.provider = run.popup /\ k.recovery = run.recovery /\ k.product = run.product
   BY <1>1 DEF RunType
 <2>3. Transient(k) = tab /\ (IF k.provider = None THEN k.recovery ELSE k.product) = durable
   BY <2>2 DEF Transient
 <2> DEFINE d == IF k.provider = None THEN k.recovery ELSE k.product
 <2>4. /\ run' = k
       /\ slots' = [slots EXCEPT !.product = d, !.provider = Transient(k),
                                 !.closed = ~Open(Transient(k)), !.page = Transient(k)]
       /\ restore' = IF Open(Transient(k)) THEN [restore EXCEPT ![Transient(k)] = d] ELSE restore
       /\ attempt' = IF attempt = NoAttempt THEN attempt
                     ELSE [attempt EXCEPT !.provider = Transient(k)]
   BY <2>1
 <2> HIDE DEF k, tab, durable
 <2>5. /\ slots' = [slots EXCEPT !.product = durable, !.provider = tab,
                                 !.closed = ~Open(tab), !.page = tab]
       /\ restore' = IF Open(tab) THEN [restore EXCEPT ![tab] = durable] ELSE restore
       /\ attempt' = IF attempt = NoAttempt THEN attempt ELSE [attempt EXCEPT !.provider = tab]
   BY <2>3, <2>4
 <2>6. QED
   BY <2>4, <2>5 DEF k
<1>3. tab \in Pages /\ durable \in MayPage /\ durable # None
  BY <1>1, TabFacts DEF MayPage
<1> DEFINE r == [run EXCEPT !.provider = run.popup, !.pc = "poll", !.late = late]
<1>4. r \in RunType
 <2>1. "poll" \in RunPCs
   BY DEF RunPCs
 <2>2. QED
   BY <1>1, <2>1 DEF RunType
<1>5. /\ SameRun(run, r) /\ r.pc = "poll" /\ r.provider = run.popup /\ r.how = run.how
      /\ r.pending = run.pending
  BY <1>1 DEF RunType, SameRun
<1>6. run' = r
  BY <1>2
<1>7. Transient(r) = tab /\ Durable(r) = durable
  BY <1>5 DEF Transient, Durable, SameRun
<1> HIDE DEF r, tab, durable
<1>8. run' # NoRun
  BY <1>4, <1>6, RunIs
<1>9. /\ slots' \in [page : Pages, product : MayPage, provider : MayPage,
                     closed : BOOLEAN, completion : MayPage, source : MayPage]
      /\ slots'.product = durable /\ slots'.provider = tab /\ slots'.closed = ~Open(tab)
      /\ slots'.completion = slots.completion /\ slots'.source = slots.source
 <2>1. slots \in [page : Pages, product : MayPage, provider : MayPage,
                  closed : BOOLEAN, completion : MayPage, source : MayPage]
   BY DEF LoginInv, LoginTypes, LoginTypeOK
 <2>2. Open(tab) \in BOOLEAN /\ tab \in MayPage
   BY <1>3 DEF Open, MayPage
 <2>3. slots' = [slots EXCEPT !.product = durable, !.provider = tab,
                              !.closed = ~Open(tab), !.page = tab]
   BY <1>2
 <2>4. QED
   BY <2>1, <2>2, <2>3, <1>3
<1>10. /\ restore' \in [Pages -> MayPage]
       /\ Open(tab) => restore'[tab] = durable
  BY <1>2, <1>3 DEF LoginInv, LoginTypes, LoginTypeOK
<1>11. \/ attempt = NoAttempt /\ attempt' = NoAttempt
       \/ /\ attempt # NoAttempt /\ attempt' \in AttemptType /\ attempt'.call = attempt.call
          /\ attempt'.epoch = attempt.epoch /\ attempt'.provider = tab
 <2>1. CASE attempt = NoAttempt
   BY <2>1, <1>2
 <2>2. CASE attempt # NoAttempt
  <3>1. attempt \in AttemptType /\ tab \in MayPage
    BY <2>2, <1>3 DEF LoginInv, LoginTypes, MayPage
  <3>2. attempt' = [attempt EXCEPT !.provider = tab]
    BY <2>2, <1>2
  <3>3. QED
    BY <2>2, <3>1, <3>2 DEF AttemptType
 <2>3. QED
   BY <2>1, <2>2
<1>12. attempt' # NoAttempt => attempt # NoAttempt
  BY <1>11
<1>13. LoginTypes'
 <2>1. run'.pc \in RunPCs /\ (attempt' = NoAttempt \/ attempt'.call \in Calls)
   BY <1>4, <1>6, <1>11 DEF RunType, AttemptType
 <2>2. QED
   BY <1>1, <1>4, <1>6, <1>9, <1>10, <1>11, <2>1
      DEF LoginInv, LoginTypes, LoginTypeOK, RunPCs
<1>14. Unopened' /\ RunTabs'
  BY <1>1, <1>5, <1>6, <1>8 DEF LoginInv, Unopened, RunTabs, SameRun, Open
<1>15. RunSlots'
 <2>1. \A p \in Pages : Open(p)' <=> Open(p)
   BY <1>1 DEF Open
 <2>2. QED
   BY <2>1, <1>1, <1>3, <1>5, <1>6, <1>7, <1>9, <1>10, <1>11, <1>12, TabFacts DEF RunSlots, SameRun
<1>16. IdleSlots'
  BY <1>8 DEF IdleSlots
<1>17. ToldOK'
 <2>1. \A k \in tally.told : outcome[k[1]] # "none"
   BY <1>1 DEF LoginInv, ToldOK
 <2>2. attempt # NoAttempt => outcome[attempt.call] = "none"
   BY DEF LoginInv, AttemptOK, RunTabs
 <2>3. QED
   BY <2>1, <2>2, <1>1, <1>11, <1>12 DEF LoginInv, ToldOK, Open
<1>18. AttemptOK' /\ DenialsOK' /\ ReturnsOK'
  BY <1>1, <1>5, <1>6, <1>8, <1>11, <1>12
     DEF LoginInv, AttemptOK, DenialsOK, ReturnsOK, CompletedByReturn, SameRun
<1>19. OnceEach' /\ EndsOnLiveTab'
  BY <1>1 DEF LoginInv, OnceEach, EndsOnLiveTab
<1>20. QED
  BY <1>13, <1>14, <1>15, <1>16, <1>17, <1>18, <1>19 DEF LoginInv

LEMMA ReturnedIs ==
    ASSUME LoginConstants, LoginInv, run # NoRun, run.pc = "poll", Returned(run) # None
    PROVE  /\ Returned(run) \in {run.product, run.provider} /\ Open(Returned(run))
           /\ run.call \in tally.returns
<1>1. run.provider = run.popup
  BY DEF LoginInv, RunTabs
<1> DEFINE pg == CompletionPage(run)
<1>2. pg # None /\ at[pg] = "return" /\ Returned(run) = pg
  BY DEF Returned
<1>3. \/ pg = run.product /\ Holds(run, run.product)
      \/ pg = run.popup /\ run.popup # None /\ Holds(run, run.popup)
  BY <1>1, <1>2 DEF CompletionPage
<1> HIDE DEF pg
<1>4. Open(pg) /\ (pg = run.product => run.shopNav) /\ (pg # run.product => run.popNav)
  BY <1>3 DEF Holds
<1>5. run.call \in tally.returns
  BY <1>2, <1>3, <1>4 DEF LoginInv, ReturnsOK
<1>6. QED
  BY <1>1, <1>2, <1>3, <1>4, <1>5

LEMMA SettlesKeeps ==
    ASSUME LoginConstants, LoginInv, run # NoRun, Settles
    PROVE  LoginInv'
<1> DEFINE pg == Returned(run)
<1>1. /\ run \in RunType /\ run.pc = "poll" /\ run.provider = run.popup
      /\ slots.completion = None /\ run.product \in Pages /\ run.provider \in MayPage
      /\ UNCHANGED <<at, screen, doc, restore, attempt, outcome, turns>>
      /\ run.recovery # None
  BY RunFacts DEF Settles, Elsewhere, LoginInv, RunTabs, RunSlots
<1>2. pg # None => /\ pg \in {run.product, run.provider} /\ Open(pg)
                     /\ run.call \in tally.returns
  BY <1>1, ReturnedIs
<1>3. Terminal(run) => run.call \in tally.returns
  BY DEF Terminal, LoginInv, ReturnsOK
<1>4. \E late, reloaded \in BOOLEAN :
        LET j == JudgeLogin([run EXCEPT !.late = @ \/ late], pg)
        IN /\ \/ run' = j
              \/ /\ j.how = "ok" /\ j.provider = None /\ ~Open(j.product)
                 /\ run' = [j EXCEPT !.how = "awaiting"]
           /\ slots' = IF j.how = "ok" THEN [slots EXCEPT !.completion = pg] ELSE slots
           /\ \E b : tally' = [tally EXCEPT !.hurried = tally.hurried \/ b]
 <2>1. PICK late \in BOOLEAN :
         LET j == JudgeLogin([run EXCEPT !.late = @ \/ late], pg)
             lost == j.how = "ok" /\ j.provider = None /\ ~Open(j.product)
         IN /\ \E reloaded \in BOOLEAN :
                 run' = IF lost /\ ~reloaded THEN [j EXCEPT !.how = "awaiting"] ELSE j
            /\ slots' = IF j.how = "ok" THEN [slots EXCEPT !.completion = pg] ELSE slots
            /\ tally' = [tally EXCEPT !.hurried =
                  @ \/ (j.how = "awaiting" /\ (j.popup # None \/ j.shopNav))]
   BY DEF Settles
 <2> HIDE DEF pg
 <2> DEFINE j == JudgeLogin([run EXCEPT !.late = @ \/ late], pg)
 <2>2. /\ \/ run' = j
          \/ /\ j.how = "ok" /\ j.provider = None /\ ~Open(j.product)
             /\ run' = [j EXCEPT !.how = "awaiting"]
       /\ slots' = IF j.how = "ok" THEN [slots EXCEPT !.completion = pg] ELSE slots
       /\ \E b : tally' = [tally EXCEPT !.hurried = tally.hurried \/ b]
   BY <2>1
 <2> HIDE DEF j
 <2>3. QED
   BY <2>2 DEF j
<1> HIDE DEF pg
<1>5. PICK late \in BOOLEAN :
        LET j == JudgeLogin([run EXCEPT !.late = @ \/ late], pg)
        IN /\ \/ run' = j
              \/ /\ j.how = "ok" /\ j.provider = None /\ ~Open(j.product)
                 /\ run' = [j EXCEPT !.how = "awaiting"]
           /\ slots' = IF j.how = "ok" THEN [slots EXCEPT !.completion = pg] ELSE slots
           /\ \E b : tally' = [tally EXCEPT !.hurried = tally.hurried \/ b]
  BY <1>4
<1> DEFINE k == [run EXCEPT !.late = @ \/ late]
           j == JudgeLogin(k, pg)
<1>6. k \in RunType
 <2>1. run.late \in BOOLEAN
   BY <1>1 DEF RunType
 <2>2. (run.late \/ late) \in BOOLEAN
   BY <2>1
 <2>3. QED
   BY <1>1, <2>2 DEF RunType
<1>7. SameRun(run, k) /\ k.provider = run.provider /\ k.pending = run.pending
  BY <1>1 DEF RunType, SameRun
<1>8. /\ \/ run' = j
         \/ /\ j.how = "ok" /\ j.provider = None /\ ~Open(j.product)
            /\ run' = [j EXCEPT !.how = "awaiting"]
      /\ slots' = IF j.how = "ok" THEN [slots EXCEPT !.completion = pg] ELSE slots
      /\ \E b : tally' = [tally EXCEPT !.hurried = tally.hurried \/ b]
  BY <1>5
<1> HIDE DEF k
<1>9. /\ j \in RunType /\ SameRun(run, j) /\ j.pc = "end" /\ j.provider = run.provider
      /\ run.denied => j.how = "denied"
      /\ j.how # "none" /\ (j.how = "ok" => run.call \in tally.returns)
 <2>1. CASE k.denied
  <3>1. "denied" \in Hows /\ FALSE \in BOOLEAN
    BY DEF Hows
  <3>2. /\ j \in RunType /\ SameRun(k, j) /\ j.pc = "end" /\ j.provider = k.provider
        /\ j.how = (IF k.denied THEN "denied" ELSE "denied")
    BY <2>1, <3>1, <1>6, LeavesIs DEF JudgeLogin
  <3> HIDE DEF j
  <3>3. QED
    BY <3>2, <1>7 DEF SameRun
 <2>2. CASE ~k.denied /\ pg = None /\ ~Terminal(k)
  <3>1. "awaiting" \in Hows /\ TRUE \in BOOLEAN
    BY DEF Hows
  <3>2. /\ j \in RunType /\ SameRun(k, j) /\ j.pc = "end" /\ j.provider = k.provider
        /\ j.how = (IF k.denied THEN "denied" ELSE "awaiting")
    BY <2>2, <3>1, <1>6, LeavesIs DEF JudgeLogin
  <3> HIDE DEF j
  <3>3. QED
    BY <2>2, <3>2, <1>7 DEF SameRun
 <2>3. CASE ~k.denied /\ (pg # None \/ Terminal(k))
  <3> DEFINE r == [k EXCEPT !.pc = "end", !.how = "ok"]
  <3>1. j = r
    BY <2>3 DEF JudgeLogin
  <3>2. "end" \in RunPCs /\ "ok" \in Hows
    BY DEF RunPCs, Hows
  <3>3. r \in RunType
    BY <1>6, <3>2 DEF RunType
  <3>4. SameRun(k, r) /\ r.pc = "end" /\ r.provider = k.provider /\ r.how = "ok"
    BY <1>6 DEF RunType, SameRun
  <3>5. Terminal(k) <=> Terminal(run)
    BY <1>7 DEF Terminal, SameRun
  <3> HIDE DEF r, j
  <3>6. QED
    BY <2>3, <3>1, <3>3, <3>4, <3>5, <1>2, <1>3, <1>7 DEF SameRun
 <2>4. QED
   BY <2>1, <2>2, <2>3
<1> HIDE DEF j
<1>10. /\ run' \in RunType /\ SameRun(run, run') /\ run'.pc = "end" /\ run'.provider = run.provider
       /\ run.denied => run'.how = "denied"
       /\ run'.how # "none" /\ (run'.how = "ok" => run.call \in tally.returns)
       /\ slots'.completion # None =>
            run'.how = "ok" /\ slots'.completion \in {run.product, run.provider}
 <2>1. slots.completion = None /\ slots'.completion \in {None, pg}
       /\ (slots'.completion # None => j.how = "ok" /\ slots'.completion = pg)
   BY <1>1, <1>8 DEF LoginInv, LoginTypes, LoginTypeOK
 <2>2. CASE run' = j
   BY <2>1, <2>2, <1>9, <1>2
 <2>3. CASE /\ j.how = "ok" /\ j.provider = None /\ ~Open(j.product)
            /\ run' = [j EXCEPT !.how = "awaiting"]
  <3> DEFINE r == [j EXCEPT !.how = "awaiting"]
  <3>1. "awaiting" \in Hows
    BY DEF Hows
  <3>2. r \in RunType
    BY <1>9, <3>1 DEF RunType
  <3>3. SameRun(j, r) /\ r.pc = "end" /\ r.provider = j.provider /\ r.how = "awaiting"
    BY <1>9 DEF RunType, SameRun
  <3>4. pg = None
    BY <2>3, <1>2, <1>9 DEF SameRun, Open
  <3> HIDE DEF r
  <3>5. QED
    BY <2>1, <2>3, <3>2, <3>3, <3>4, <1>9 DEF SameRun, r
 <2>4. QED
   BY <2>2, <2>3, <1>8
<1>11. /\ slots' \in [page : Pages, product : MayPage, provider : MayPage,
                      closed : BOOLEAN, completion : MayPage, source : MayPage]
       /\ slots'.product = slots.product /\ slots'.provider = slots.provider
       /\ slots'.closed = slots.closed /\ slots'.source = slots.source
 <2>1. pg \in MayPage
   BY <1>1, <1>2 DEF MayPage
 <2>2. QED
   BY <2>1, <1>8 DEF LoginInv, LoginTypes, LoginTypeOK
<1>12. /\ tally' \in TallyType /\ tally'.told = tally.told /\ tally'.returns = tally.returns
       /\ tally'.denials = tally.denials /\ tally'.repeated = tally.repeated
       /\ tally'.dead = tally.dead
 <2>1. PICK b : tally' = [tally EXCEPT !.hurried = tally.hurried \/ b]
   BY <1>8
 <2>2. tally \in TallyType
   BY DEF LoginInv, LoginTypes
 <2>3. (tally.hurried \/ b) \in BOOLEAN
   OBVIOUS
 <2>4. QED
   BY <2>1, <2>2, <2>3 DEF TallyType
<1>13. run' # NoRun
  BY <1>10, RunIs
<1>14. LoginTypes'
  BY <1>1, <1>10, <1>11, <1>12 DEF LoginInv, LoginTypes, LoginTypeOK
<1>15. Unopened' /\ RunTabs'
  BY <1>1, <1>10, <1>13 DEF LoginInv, Unopened, RunTabs, SameRun, Open
<1>16. RunSlots'
 <2>1. Transient(run') = Transient(run) /\ Durable(run') = Durable(run)
   BY <1>10 DEF Transient, Durable, SameRun
 <2>2. QED
   BY <2>1, <1>1, <1>10, <1>11, <1>13 DEF LoginInv, RunSlots, SameRun, Open
<1>17. IdleSlots'
  BY <1>13 DEF IdleSlots
<1>18. ToldOK' /\ AttemptOK'
  BY <1>1, <1>10, <1>11, <1>12, <1>13 DEF LoginInv, ToldOK, AttemptOK, SameRun, Open
<1>19. DenialsOK' /\ ReturnsOK'
  BY <1>1, <1>10, <1>12, <1>13 DEF LoginInv, DenialsOK, ReturnsOK, CompletedByReturn, SameRun
<1>20. OnceEach' /\ EndsOnLiveTab'
  BY <1>12 DEF LoginInv, OnceEach, EndsOnLiveTab
<1>21. QED
  BY <1>14, <1>15, <1>16, <1>17, <1>18, <1>19, <1>20 DEF LoginInv

(* A challenge is told once for each epoch. *)
LEMMA RingsIs ==
    ASSUME tally \in TallyType, NEW a, NEW key \in Keys, key \in tally.told => a.epoch = key,
           tally' = Rings(tally, a, key)
    PROVE  /\ tally' \in TallyType /\ tally'.told \subseteq tally.told \cup {key}
           /\ tally'.returns = tally.returns /\ tally'.denials = tally.denials
           /\ tally'.repeated = tally.repeated /\ tally'.dead = tally.dead
<1>1. CASE a.epoch = key
  BY <1>1 DEF Rings, Tells
<1>2. CASE a.epoch # key
 <2>1. key \notin tally.told /\ tally.repeated \in BOOLEAN
   BY <1>2 DEF TallyType
 <2> DEFINE told == tally.told \cup {key}
            g == [tally EXCEPT !.told = told, !.repeated = tally.repeated]
 <2>2. told \in SUBSET Keys
   BY DEF TallyType
 <2>3. tally' = g
   BY <1>2, <2>1 DEF Rings, Tells
 <2> HIDE DEF told
 <2>4. g \in TallyType /\ g.told = told /\ g.returns = tally.returns /\ g.denials = tally.denials
       /\ g.repeated = tally.repeated /\ g.dead = tally.dead
   BY <2>1, <2>2 DEF TallyType
 <2> HIDE DEF g
 <2>5. QED
   BY <2>3, <2>4 DEF told
<1>3. QED
  BY <1>1, <1>2

LEMMA NotedIs ==
    ASSUME NEW a \in AttemptType, NEW key \in {<<>>} \cup Keys
    PROVE  /\ Noted(a, key) \in AttemptType /\ Noted(a, key).call = a.call
           /\ Noted(a, key).epoch = key /\ Noted(a, key).provider = a.provider
BY DEF Noted, AttemptType

(* What is told after it was noted: the key of the attempt and nothing else  *)
(* of its call.                                                              *)
LEMMA ToldKeeps ==
    ASSUME LoginConstants, LoginInv, NEW p \in Pages, attempt # NoAttempt, attempt' # NoAttempt,
           attempt'.call = attempt.call, attempt'.provider = p, attempt'.epoch = EpochKey(attempt, p),
           tally'.told \subseteq tally.told \cup {EpochKey(attempt, p)},
           \A k \in tally.told : k[1] = attempt.call => k[2] = p,
           UNCHANGED <<at, screen, doc, outcome>>, Open(p), screen[p] = "challenge",
           \A c \in Calls : run # NoRun /\ run.call = c /\ slots.provider # None =>
                                run' # NoRun /\ run'.call = c /\ slots'.provider # None,
           \/ outcome[attempt.call] # "none"
           \/ run # NoRun /\ run.call = attempt.call /\ slots.provider # None
    PROVE  ToldOK'
<1> DEFINE key == EpochKey(attempt, p)
<1>1. key[1] = attempt.call /\ key[2] = p /\ key[3] = doc[p]
  BY DEF EpochKey
<1>2. \A k \in tally.told : k \in Keys
  BY DEF LoginInv, LoginTypes, TallyType
<1>3. \A k \in tally.told : k[1] = attempt.call => k = key
 <2> TAKE k \in tally.told
 <2> HAVE k[1] = attempt.call
 <2>1. k[2] = p /\ k[3] = doc[k[2]]
   BY DEF LoginInv, ToldOK
 <2>2. k = <<k[1], k[2], k[3]>>
   BY <1>2 DEF Keys
 <2>3. QED
   BY <2>1, <2>2 DEF EpochKey
<1>4. attempt.call \in Calls
  BY DEF LoginInv, LoginTypes, AttemptType
<1> HIDE DEF key
<1>5. \A k \in tally'.told : k = key \/ k \in tally.told
  BY DEF key
<1>6. \A q \in Pages : Open(q)' <=> Open(q)
  BY DEF Open
<1>7. at[p] # "none"
  BY DEF Open, Urls
<1>8. \A k \in tally'.told : k[2] \in Pages /\ k[1] \in Calls
  BY <1>1, <1>2, <1>4, <1>5 DEF Keys
<1>9. ASSUME NEW k \in tally'.told
      PROVE  /\ k[3] = doc'[k[2]] /\ at'[k[2]] # "none"
             /\ Open(k[2]) => screen'[k[2]] = "challenge"
             /\ outcome'[k[1]] # "none" \/ (run' # NoRun /\ run'.call = k[1] /\ slots'.provider # None)
             /\ attempt'.call = k[1] => attempt'.epoch = k /\ attempt'.provider = k[2]
 <2>1. CASE k = key
   BY <2>1, <1>1, <1>4, <1>7 DEF key
 <2>2. CASE k \in tally.told
   BY <2>2, <1>1, <1>3, <1>8 DEF LoginInv, ToldOK, key
 <2>3. QED
   BY <2>1, <2>2, <1>5
<1>10. QED
  BY <1>6, <1>8, <1>9 DEF ToldOK

LEMMA ChallengesKeeps ==
    ASSUME LoginConstants, LoginInv, run # NoRun, Challenges
    PROVE  LoginInv'
<1> DEFINE p == Transient(run)
           a == Own(attempt)
           key == EpochKey(attempt, p)
<1>1. /\ run \in RunType /\ run.pc = "poll" /\ run.provider = run.popup /\ p \in Pages
      /\ run.call \in Calls /\ attempt # NoAttempt /\ attempt.call = run.call
      /\ slots.provider = p /\ slots.provider # None /\ attempt.provider = p
      /\ outcome[run.call] = "none" /\ Open(p) /\ screen[p] = "challenge"
      /\ UNCHANGED <<at, screen, doc, restore, slots, outcome, turns>>
  BY RunFacts DEF Challenges, Polling, AtProvider, Elsewhere, LoginInv, RunTabs, RunSlots, AttemptOK
<1>2. /\ a \in AttemptType /\ a.call = attempt.call /\ a.epoch = attempt.epoch /\ a.provider = p
  BY <1>1, OwnIs DEF LoginInv
<1>3. key \in Keys /\ EpochKey(a, p) = key
 <2>1. doc[p] \in Nat
   BY <1>1 DEF LoginInv, LoginTypes, LoginTypeOK
 <2> HIDE DEF p, a
 <2>2. QED
   BY <1>1, <1>2, <2>1 DEF EpochKey, Keys
<1>4. attempt' = Noted(a, EpochKey(a, p)) /\ tally' = Rings(tally, a, EpochKey(a, p))
  BY DEF Challenges
<1> DEFINE r == [run EXCEPT !.pc = "tell"]
<1>5. r \in RunType
 <2>1. "tell" \in RunPCs
   BY DEF RunPCs
 <2>2. QED
   BY <1>1, <2>1 DEF RunType
<1>6. SameRun(run, r) /\ r.pc = "tell" /\ r.provider = run.provider /\ r.how = run.how
  BY <1>1 DEF RunType, SameRun
<1>7. run' = r
  BY DEF Challenges
<1> HIDE DEF r, a, p
<1>8. /\ attempt' \in AttemptType /\ attempt'.call = attempt.call /\ attempt'.epoch = key
      /\ attempt'.provider = p
 <2> HIDE DEF key
 <2>1. QED
   BY <1>2, <1>3, <1>4, NotedIs
<1>9. \A k \in tally.told : k[1] = attempt.call => k[2] = p
  BY <1>1 DEF LoginInv, ToldOK
<1>10. key \in tally.told => a.epoch = key
 <2>1. key[1] = attempt.call
   BY DEF EpochKey
 <2> HIDE DEF key
 <2>2. QED
   BY <2>1, <1>1, <1>2 DEF LoginInv, ToldOK
<1>11. /\ tally' \in TallyType /\ tally'.told \subseteq tally.told \cup {key}
       /\ tally'.returns = tally.returns /\ tally'.denials = tally.denials
       /\ tally'.repeated = tally.repeated /\ tally'.dead = tally.dead
 <2> HIDE DEF key
 <2>1. tally \in TallyType
   BY DEF LoginInv, LoginTypes
 <2>2. QED
   BY <2>1, <1>3, <1>4, <1>10, RingsIs
<1>12. run' # NoRun /\ attempt' # NoAttempt
  BY <1>5, <1>7, <1>8, RunIs
<1>13. LoginTypes'
 <2>1. attempt'.call \in Calls
   BY <1>8 DEF AttemptType
 <2>2. QED
   BY <1>1, <1>5, <1>6, <1>7, <1>8, <1>11, <2>1 DEF LoginInv, LoginTypes, LoginTypeOK
<1>14. Unopened' /\ RunTabs'
  BY <1>1, <1>6, <1>7, <1>12 DEF LoginInv, Unopened, RunTabs, SameRun, Open
<1>15. RunSlots'
 <2>1. Transient(run') = p /\ Durable(run') = Durable(run)
   BY <1>6, <1>7 DEF Transient, Durable, SameRun, p
 <2>2. QED
   BY <2>1, <1>1, <1>6, <1>7, <1>8, <1>12 DEF LoginInv, RunSlots, SameRun, Open
<1>16. IdleSlots'
  BY <1>12 DEF IdleSlots
<1>17. ToldOK'
 <2>1. run'.call = run.call
   BY <1>6, <1>7 DEF SameRun
 <2>2. QED
   BY <2>1, <1>1, <1>8, <1>9, <1>11, <1>12, ToldKeeps
<1>18. AttemptOK' /\ DenialsOK' /\ ReturnsOK'
  BY <1>1, <1>6, <1>7, <1>8, <1>11, <1>12
     DEF LoginInv, AttemptOK, DenialsOK, ReturnsOK, CompletedByReturn, SameRun
<1>19. OnceEach' /\ EndsOnLiveTab'
  BY <1>11 DEF LoginInv, OnceEach, EndsOnLiveTab
<1>20. QED
  BY <1>13, <1>14, <1>15, <1>16, <1>17, <1>18, <1>19 DEF LoginInv

LEMMA RefreshKeeps ==
    ASSUME LoginConstants, LoginInv, Refresh
    PROVE  LoginInv'
<1> DEFINE p == attempt.provider
           key == EpochKey(attempt, p)
<1>1. /\ run = NoRun /\ attempt # NoAttempt /\ p # None
      /\ UNCHANGED <<at, screen, doc, restore, slots, run, outcome, turns>>
  BY DEF Refresh, Between, Elsewhere
<1>2. attempt \in AttemptType /\ attempt.call \in Calls /\ p \in Pages /\ tally \in TallyType
      /\ outcome[attempt.call] # "none"
  BY <1>1 DEF LoginInv, LoginTypes, AttemptType, MayPage, AttemptOK
<1>3. /\ Unopened' /\ RunTabs' /\ RunSlots' /\ IdleSlots'
  BY <1>1 DEF LoginInv, Unopened, RunTabs, RunSlots, IdleSlots, Open, Showing, Keeping
<1>4. CASE attempt' = NoAttempt /\ UNCHANGED tally
  BY <1>1, <1>3, <1>4 DEF LoginInv, LoginTypes, LoginTypeOK, ToldOK, AttemptOK, DenialsOK, ReturnsOK,
     CompletedByReturn, OnceEach, EndsOnLiveTab, Open
<1>5. CASE /\ Open(p) /\ screen[p] # "challenge"
           /\ attempt' = [attempt EXCEPT !.epoch = <<>>] /\ UNCHANGED tally
 <2>1. attempt' \in AttemptType /\ attempt'.call = attempt.call /\ attempt'.provider = p
   BY <1>2, <1>5 DEF AttemptType
 <2>2. attempt' # NoAttempt
   BY <2>1, RunIs
 <2>3. \A k \in tally.told : k[1] # attempt.call
   BY <1>1, <1>5 DEF LoginInv, ToldOK
 <2>4. ToldOK'
   BY <2>1, <2>3, <1>1, <1>5 DEF LoginInv, ToldOK, Open
 <2>5. LoginTypes'
   BY <2>1, <1>1, <1>2, <1>5 DEF LoginInv, LoginTypes, LoginTypeOK
 <2>6. QED
   BY <2>1, <2>2, <2>4, <2>5, <1>1, <1>2, <1>3, <1>5
      DEF LoginInv, AttemptOK, DenialsOK, ReturnsOK, CompletedByReturn, OnceEach, EndsOnLiveTab
<1>6. CASE /\ Open(p) /\ screen[p] = "challenge"
           /\ attempt' = Noted([attempt EXCEPT !.doc = doc[p]], key)
           /\ tally' = Rings(tally, attempt, key)
 <2> DEFINE a == [attempt EXCEPT !.doc = doc[p]]
 <2>1. doc[p] \in Nat
   BY <1>2 DEF LoginInv, LoginTypes, LoginTypeOK
 <2>2. a \in AttemptType /\ a.call = attempt.call /\ a.provider = p
   BY <1>2, <2>1 DEF AttemptType
 <2>3. key \in Keys /\ key[1] = attempt.call
   BY <1>2, <2>1 DEF EpochKey, Keys
 <2>4. attempt' = Noted(a, key)
   BY <1>6
 <2>5. \A k \in tally.told : k[1] = attempt.call => attempt.epoch = k /\ k[2] = p
   BY <1>1 DEF LoginInv, ToldOK
 <2> HIDE DEF a, key
 <2>6. /\ attempt' \in AttemptType /\ attempt'.call = attempt.call /\ attempt'.provider = p
       /\ attempt'.epoch = key
   BY <2>2, <2>3, <2>4, NotedIs
 <2>7. /\ tally' \in TallyType /\ tally'.told \subseteq tally.told \cup {key}
       /\ tally'.returns = tally.returns /\ tally'.denials = tally.denials
       /\ tally'.repeated = tally.repeated /\ tally'.dead = tally.dead
  <3>1. key \in tally.told => attempt.epoch = key
    BY <2>3, <2>5
  <3>2. QED
    BY <3>1, <1>2, <1>6, <2>3, RingsIs
 <2>8. attempt' # NoAttempt
   BY <2>6, RunIs
 <2>9. ToldOK'
   BY <2>5, <2>6, <2>7, <2>8, <1>1, <1>2, <1>6, ToldKeeps DEF key
 <2>10. LoginTypes'
   BY <2>6, <2>7, <1>1, <1>2 DEF LoginInv, LoginTypes, LoginTypeOK
 <2>11. QED
   BY <2>6, <2>7, <2>8, <2>9, <2>10, <1>1, <1>2, <1>3
      DEF LoginInv, AttemptOK, DenialsOK, ReturnsOK, CompletedByReturn, OnceEach, EndsOnLiveTab
<1>7. QED
  BY <1>4, <1>5, <1>6 DEF Refresh

LEMMA AgesKeeps ==
    ASSUME LoginConstants, LoginInv, Ages
    PROVE  LoginInv'
<1>1. /\ attempt # NoAttempt /\ UNCHANGED <<at, screen, doc, restore, slots, run, outcome, turns>>
      /\ attempt' = [attempt EXCEPT !.epoch = <<>>]
      /\ tally' = [tally EXCEPT !.told = @ \ {attempt.epoch}]
  BY DEF Ages, Elsewhere
<1>2. attempt \in AttemptType /\ tally \in TallyType
  BY <1>1 DEF LoginInv, LoginTypes
<1>3. attempt' \in AttemptType /\ attempt'.call = attempt.call /\ attempt'.provider = attempt.provider
      /\ attempt'.call \in Calls
  BY <1>1, <1>2 DEF AttemptType
<1>4. attempt' # NoAttempt
  BY <1>3, RunIs
<1>5. /\ tally' \in TallyType /\ tally'.told = tally.told \ {attempt.epoch}
      /\ tally'.returns = tally.returns /\ tally'.denials = tally.denials
      /\ tally'.repeated = tally.repeated /\ tally'.dead = tally.dead
 <2> DEFINE told == tally.told \ {attempt.epoch}
 <2>1. told \in SUBSET Keys /\ tally' = [tally EXCEPT !.told = told]
   BY <1>1, <1>2 DEF TallyType
 <2> HIDE DEF told
 <2>2. QED
   BY <2>1, <1>2 DEF TallyType, told
<1>6. LoginTypes'
  BY <1>1, <1>3, <1>5 DEF LoginInv, LoginTypes, LoginTypeOK
<1>7. Unopened' /\ RunTabs' /\ RunSlots' /\ IdleSlots'
  BY <1>1, <1>3 DEF LoginInv, Unopened, RunTabs, RunSlots, IdleSlots, Open, Showing, Keeping,
     Transient, Durable
<1>8. ToldOK'
  BY <1>1, <1>3, <1>5 DEF LoginInv, ToldOK, Open
<1>9. AttemptOK' /\ DenialsOK' /\ ReturnsOK' /\ OnceEach' /\ EndsOnLiveTab'
  BY <1>1, <1>3, <1>5
     DEF LoginInv, AttemptOK, DenialsOK, ReturnsOK, CompletedByReturn, OnceEach, EndsOnLiveTab
<1>10. QED
  BY <1>6, <1>7, <1>8, <1>9 DEF LoginInv

SlotsType ==
    [page : Pages, product : MayPage, provider : MayPage, closed : BOOLEAN,
     completion : MayPage, source : MayPage]

LEMMA ObserveLoginKeeps ==
    ASSUME LoginConstants, LoginInv, ObserveLogin
    PROVE  LoginInv'
<1> DEFINE gone == slots.source # None /\ ~Open(slots.source)
           done == slots.product # None /\ Open(slots.product)
                     /\ (slots.closed \/ (slots.provider # None /\ ~Open(slots.provider)))
<1>1. /\ run = NoRun
      /\ UNCHANGED <<at, screen, doc, restore, phases, turns, attempt, run, outcome, tally>>
      /\ slots \in SlotsType
  BY DEF ObserveLogin, Between, Elsewhere, LoginInv, LoginTypes, LoginTypeOK, SlotsType
<1>2. CASE gone \/ done
 <2>1. slots' = [Recovered EXCEPT !.source = None]
   BY <1>2 DEF ObserveLogin
 <2> HIDE DEF gone, done
 <2> DEFINE pg == IF Open(slots.product) THEN slots.product ELSE slots.page
 <2>2. Recovered = [slots EXCEPT !.page = pg, !.product = None, !.provider = None, !.closed = FALSE]
   BY <1>1 DEF Recovered, SlotsType
 <2>3. pg \in Pages
   BY <1>1 DEF SlotsType, MayPage, Open
 <2> HIDE DEF pg
 <2>4. /\ slots' \in SlotsType /\ slots'.page = pg /\ slots'.product = None
       /\ slots'.provider = None /\ slots'.source = None
   BY <1>1, <2>1, <2>2, <2>3 DEF SlotsType, MayPage
 <2>5. ~Open(None)
   BY DEF Open
 <2>6. \A p \in Pages : Open(p) => p \in {Product, pg}
  <3>1. CASE slots.product = None
    BY <3>1, <2>5, <1>1, <1>2 DEF LoginInv, IdleSlots, pg, gone, done
  <3>2. CASE slots.product # None /\ Showing
    BY <3>2, <2>5, <1>1, <1>2 DEF LoginInv, IdleSlots, Showing, pg, gone, done
  <3>3. CASE slots.product # None /\ Keeping
    BY <3>3, <2>5, <1>1, <1>2 DEF LoginInv, IdleSlots, Keeping, pg, gone, done
  <3>4. QED
    BY <3>1, <3>2, <3>3, <1>1 DEF LoginInv, IdleSlots
 <2>7. IdleSlots'
   BY <2>4, <2>6, <1>1 DEF IdleSlots, Open
 <2>8. LoginTypes'
   BY <2>4, <1>1 DEF LoginInv, LoginTypes, LoginTypeOK, SlotsType
 <2>9. QED
   BY <2>7, <2>8, <1>1 DEF LoginInv, Unopened, RunTabs, RunSlots, ToldOK, AttemptOK, DenialsOK,
      ReturnsOK, CompletedByReturn, OnceEach, EndsOnLiveTab, Open
<1>3. CASE ~(gone \/ done)
 <2>1. slots' = [slots EXCEPT !.page = LivePage]
  <3>1. slots' = [[slots EXCEPT !.page = LivePage] EXCEPT !.source = slots.source]
    BY <1>3, <1>1 DEF ObserveLogin, SlotsType
  <3>2. LivePage \in Pages
    BY LivePageIs DEF LoginInv
  <3>3. QED
    BY <3>1, <3>2, <1>1 DEF SlotsType
 <2> HIDE DEF gone, done
 <2>2. LivePage \in Pages /\ (Open(slots.page) => LivePage = slots.page)
   BY LivePageIs DEF LoginInv
 <2>3. /\ slots' \in SlotsType /\ slots'.product = slots.product /\ slots'.provider = slots.provider
       /\ slots'.source = slots.source /\ slots'.closed = slots.closed
       /\ (Open(slots.page) => slots'.page = slots.page)
   BY <1>1, <2>1, <2>2 DEF SlotsType
 <2>4. \A p : Open(p)' <=> Open(p)
   BY <1>1 DEF Open
 <2>5. IdleSlots'
  <3>1. CASE slots.product = None
    BY <3>1, <1>1, <2>3, <2>4 DEF LoginInv, IdleSlots
  <3>2. CASE slots.product # None /\ Showing
   <4>1. Showing'
     BY <3>2, <1>1, <2>3, <2>4 DEF Showing
   <4>2. QED
     BY <3>2, <4>1, <1>1, <2>3, <2>4 DEF LoginInv, IdleSlots
  <3>3. CASE slots.product # None /\ Keeping
   <4>1. Keeping'
     BY <3>3, <1>1, <2>3, <2>4 DEF Keeping
   <4>2. QED
     BY <3>3, <4>1, <1>1, <2>3, <2>4 DEF LoginInv, IdleSlots
  <3>4. QED
    BY <3>1, <3>2, <3>3, <1>1 DEF LoginInv, IdleSlots
 <2>6. LoginTypes'
   BY <2>3, <1>1 DEF LoginInv, LoginTypes, LoginTypeOK, SlotsType
 <2>7. QED
   BY <2>5, <2>6, <1>1 DEF LoginInv, Unopened, RunTabs, RunSlots, ToldOK, AttemptOK, DenialsOK,
      ReturnsOK, CompletedByReturn, OnceEach, EndsOnLiveTab, Open
<1>4. QED
  BY <1>2, <1>3

LEMMA SettleKeeps ==
    ASSUME LoginConstants, LoginInv, Settle
    PROVE  LoginInv'
<1> DEFINE shut == {p \in {slots.provider} \ {slots.product} : Open(p)}
<1>1. /\ run = NoRun /\ Open(slots.product) /\ slots \in SlotsType
      /\ UNCHANGED <<screen, doc, restore, attempt, phases, run, outcome, tally, turns>>
      /\ at' = [p \in Pages |-> IF p \in shut THEN "closed" ELSE at[p]]
  BY DEF Settle, Between, LoginInv, LoginTypes, LoginTypeOK, SlotsType
<1>2. slots.product \in Pages /\ slots.product # None
  BY <1>1 DEF SlotsType, MayPage, Open
<1>3. slots' \in SlotsType /\ slots'.page = slots.product /\ slots'.product = None
      /\ slots'.provider = None /\ slots'.source = slots.product
 <2> DEFINE done == IF slots.completion \in shut THEN None ELSE slots.completion
 <2>1. done \in MayPage
   BY <1>1 DEF SlotsType, MayPage
 <2>2. slots' = [slots EXCEPT !.page = slots.product, !.product = None, !.provider = None,
                              !.closed = FALSE, !.source = slots.product, !.completion = done]
   BY <1>1 DEF Settle, SlotsType
 <2> HIDE DEF done, shut
 <2>3. QED
   BY <1>1, <1>2, <2>1, <2>2 DEF SlotsType, MayPage
<1>4. /\ at' \in [Pages -> Urls \cup {"none", "closed"}]
      /\ \A p \in Pages : at'[p] = IF p = slots.provider /\ p # slots.product /\ Open(p)
                                   THEN "closed" ELSE at[p]
  BY <1>1 DEF LoginInv, LoginTypes, LoginTypeOK
<1>5. \A p \in Pages : /\ (at'[p] = "none" <=> at[p] = "none")
                       /\ Open(p)' <=> (Open(p) /\ (p = slots.provider => p = slots.product))
 <2>1. \A p \in Pages : p # None
   BY TabFacts
 <2>2. QED
   BY <2>1, <1>4 DEF Open, Urls
<1>6. LoginTypes'
  BY <1>1, <1>3, <1>4 DEF LoginInv, LoginTypes, LoginTypeOK, SlotsType
<1>7. Unopened'
  BY <1>1, <1>5, TabFacts DEF LoginInv, Unopened
<1>8. RunTabs' /\ RunSlots'
  BY <1>1 DEF RunTabs, RunSlots
<1>9. IdleSlots'
  BY <1>1, <1>2, <1>3, <1>5 DEF LoginInv, IdleSlots
<1>10. ToldOK'
 <2>1. \A k \in tally.told : k[2] \in Pages
   BY DEF LoginInv, LoginTypes, TallyType, Keys
 <2>2. QED
   BY <2>1, <1>1, <1>5 DEF LoginInv, ToldOK
<1>11. AttemptOK' /\ DenialsOK' /\ ReturnsOK' /\ OnceEach' /\ EndsOnLiveTab'
  BY <1>1 DEF LoginInv, AttemptOK, DenialsOK, ReturnsOK, CompletedByReturn, OnceEach, EndsOnLiveTab
<1>12. QED
  BY <1>6, <1>7, <1>8, <1>9, <1>10, <1>11 DEF LoginInv

-----------------------------------------------------------------------------
(* What sites and people do. *)

LEMMA SeenIs ==
    ASSUME NEW k \in RunType, NEW p \in Pages, NEW to \in Urls
    PROVE  LET r == Seen(k, p, to)
               ours == k.started /\ p \in {k.product, k.popup}
           IN /\ r \in RunType /\ r.pc = k.pc /\ r.call = k.call /\ r.product = k.product
              /\ r.recovery = k.recovery /\ r.popup = k.popup /\ r.provider = k.provider
              /\ r.started = k.started /\ r.pending = k.pending /\ r.how = k.how
              /\ k.denied \/ (ours /\ to = "denied" /\ k.expected) => r.denied
              /\ r.returned # None => k.returned # None \/ (ours /\ to = "return")
              /\ r.shopNav => k.shopNav \/ (ours /\ p = k.product)
              /\ r.popNav => k.popNav \/ (ours /\ p = k.popup)
<1> DEFINE ours == k.started /\ p \in {k.product, k.popup}
<1>1. CASE ~ours
 <2>1. Seen(k, p, to) = k
   BY <1>1 DEF Seen
 <2>2. QED
   BY <2>1, <1>1
<1>2. CASE ours
 <2> DEFINE known == k.expected \/ to = "provider"
            hit == known /\ to \in {"return", "denied"}
            forgets == IF k.returned = p THEN to \in {"provider", "denied"}
                       ELSE p = k.product /\ ~hit /\ to # "app"
            den == k.denied \/ (hit /\ to = "denied")
            shop == k.shopNav \/ p = k.product
            pop == k.popNav \/ p = k.popup
            ret == IF hit /\ to = "return" THEN p ELSE IF forgets THEN None ELSE k.returned
            onw == IF forgets THEN None
                   ELSE IF k.returned = p /\ to \in {"app", "form"} THEN p ELSE k.onward
            r == [k EXCEPT !.expected = known, !.denied = den, !.shopNav = shop, !.popNav = pop,
                           !.returned = ret, !.onward = onw]
 <2>1. {known, den, shop, pop} \subseteq BOOLEAN
   BY DEF RunType
 <2>2. k.returned \in MayPage /\ k.onward \in MayPage /\ p \in MayPage /\ None \in MayPage
   BY DEF RunType, MayPage
 <2>3. ret \in MayPage /\ onw \in MayPage
   BY <2>2
 <2>4. Seen(k, p, to) = r
   BY <1>2 DEF Seen
 <2>5. /\ (k.denied \/ (to = "denied" /\ k.expected) => den)
       /\ (ret # None => k.returned # None \/ to = "return")
   OBVIOUS
 <2> HIDE DEF known, den, shop, pop, ret, onw
 <2>6. r \in RunType
   BY <2>1, <2>3 DEF RunType
 <2>7. /\ r.pc = k.pc /\ r.call = k.call /\ r.product = k.product
       /\ r.recovery = k.recovery /\ r.popup = k.popup /\ r.provider = k.provider
       /\ r.started = k.started /\ r.pending = k.pending /\ r.how = k.how
       /\ r.denied = den /\ r.returned = ret /\ r.shopNav = shop /\ r.popNav = pop
   BY DEF RunType
 <2> HIDE DEF r
 <2>8. QED
   BY <1>2, <2>4, <2>5, <2>6, <2>7 DEF shop, pop
<1>3. QED
  BY <1>1, <1>2

LEMMA NavigatedKeeps ==
    ASSUME LoginConstants, LoginInv, run.pc # "end", NEW p \in Pages, NEW to \in Urls,
           NEW scr \in Screens, Open(p), turns < MaxTurns, Navigated(p, to, scr)
    PROVE  LoginInv'
<1> DEFINE ours == run # NoRun /\ run.started /\ p \in {run.product, run.popup}
<1>1. /\ at' = [at EXCEPT ![p] = to] /\ screen' = [screen EXCEPT ![p] = scr]
      /\ doc' = [doc EXCEPT ![p] = @ + 1] /\ turns' = turns + 1
      /\ UNCHANGED <<slots, restore, phases, outcome>>
      /\ at \in [Pages -> Urls \cup {"none", "closed"}] /\ screen \in [Pages -> Screens]
      /\ doc \in [Pages -> Nat] /\ turns \in 0..MaxTurns
  BY DEF Navigated, LoginInv, LoginTypes, LoginTypeOK
<1>2. /\ at' \in [Pages -> Urls \cup {"none", "closed"}] /\ screen' \in [Pages -> Screens]
      /\ doc' \in [Pages -> Nat] /\ turns' \in 0..MaxTurns
      /\ \A q \in Pages : q # p => at'[q] = at[q] /\ screen'[q] = screen[q] /\ doc'[q] = doc[q]
      /\ at'[p] = to /\ at[p] \in Urls
  BY <1>1 DEF LoginConstants, Open
<1>3. \A q \in Pages : (at'[q] = "none" <=> at[q] = "none") /\ (Open(q)' <=> Open(q))
  BY <1>2 DEF Open, Urls
<1>4. run = NoRun => run' = NoRun
  BY DEF Navigated, Live
<1>5. run # NoRun =>
        /\ run' \in RunType /\ run'.pc = run.pc /\ run'.call = run.call /\ run'.product = run.product
        /\ run'.recovery = run.recovery /\ run'.popup = run.popup /\ run'.provider = run.provider
        /\ run'.started = run.started /\ run'.pending = run.pending /\ run'.how = run.how
        /\ run.denied \/ (ours /\ to = "denied" /\ run.expected) => run'.denied
        /\ run'.returned # None => run.returned # None \/ (ours /\ to = "return")
        /\ run'.shopNav => run.shopNav \/ (ours /\ p = run.product)
        /\ run'.popNav => run.popNav \/ (ours /\ p = run.popup)
 <2> SUFFICES ASSUME run # NoRun
              PROVE  /\ run' \in RunType /\ run'.pc = run.pc /\ run'.call = run.call
                     /\ run'.product = run.product /\ run'.recovery = run.recovery
                     /\ run'.popup = run.popup /\ run'.provider = run.provider
                     /\ run'.started = run.started /\ run'.pending = run.pending
                     /\ run'.how = run.how
                     /\ run.denied \/ (ours /\ to = "denied" /\ run.expected) => run'.denied
                     /\ run'.returned # None => run.returned # None \/ (ours /\ to = "return")
                     /\ run'.shopNav => run.shopNav \/ (ours /\ p = run.product)
                     /\ run'.popNav => run.popNav \/ (ours /\ p = run.popup)
   OBVIOUS
 <2>1. run \in RunType /\ run' = Seen(run, p, to)
   BY RunFacts DEF Navigated, Live
 <2>2. QED
   BY <2>1, SeenIs
<1>6. run # NoRun => run' # NoRun
  BY <1>5, RunIs
<1>7. /\ tally' \in TallyType /\ tally'.told = {k \in tally.told : k[2] # p}
      /\ tally'.returns = (IF ours /\ to = "return" THEN tally.returns \cup {run.call}
                           ELSE tally.returns)
      /\ tally'.denials = (IF ours /\ to = "denied" /\ run.expected
                           THEN tally.denials \cup {run.call} ELSE tally.denials)
      /\ tally'.repeated = tally.repeated /\ tally'.dead = tally.dead
 <2> DEFINE told == {k \in tally.told : k[2] # p}
            ret == IF ours /\ to = "return" THEN tally.returns \cup {run.call} ELSE tally.returns
            den == IF ours /\ to = "denied" /\ run.expected THEN tally.denials \cup {run.call}
                   ELSE tally.denials
 <2>1. tally \in TallyType /\ (run # NoRun => run.call \in Calls)
   BY RunFacts DEF LoginInv, LoginTypes
 <2>2. told \in SUBSET Keys /\ ret \in SUBSET Calls /\ den \in SUBSET Calls
   BY <2>1 DEF TallyType
 <2>3. tally' = [tally EXCEPT !.told = told, !.returns = ret, !.denials = den]
   BY <2>1 DEF Navigated, Live, TallyType
 <2> HIDE DEF told, ret, den
 <2>4. tally' \in TallyType /\ tally'.told = told /\ tally'.returns = ret /\ tally'.denials = den
       /\ tally'.repeated = tally.repeated /\ tally'.dead = tally.dead
   BY <2>1, <2>2, <2>3 DEF TallyType
 <2>5. QED
   BY <2>4 DEF told, ret, den
<1>8. \/ UNCHANGED attempt
      \/ /\ attempt # NoAttempt /\ attempt' # NoAttempt /\ attempt' \in AttemptType
         /\ attempt'.call = attempt.call
         /\ attempt'.epoch = attempt.epoch /\ attempt'.provider = attempt.provider
 <2>1. CASE attempt # NoAttempt /\ attempt.provider = p
  <3>1. attempt \in AttemptType /\ attempt' = [attempt EXCEPT !.doc = -1]
    BY <2>1 DEF Navigated, LoginInv, LoginTypes
  <3>2. /\ attempt' \in AttemptType /\ attempt'.call = attempt.call
        /\ attempt'.epoch = attempt.epoch /\ attempt'.provider = attempt.provider
    BY <3>1 DEF AttemptType
  <3>3. QED
    BY <2>1, <3>2, RunIs
 <2>2. CASE ~(attempt # NoAttempt /\ attempt.provider = p)
   BY <2>2 DEF Navigated
 <2>3. QED
   BY <2>1, <2>2
<1> HIDE DEF ours
<1>9. LoginTypes'
 <2>1. attempt' = NoAttempt \/ (attempt' \in AttemptType /\ attempt'.call \in Calls)
   BY <1>8 DEF LoginInv, LoginTypes, AttemptType
 <2>2. run' = NoRun \/ (run' \in RunType /\ run'.pc \in RunPCs)
   BY <1>4, <1>5, RunFacts
 <2>3. QED
   BY <2>1, <2>2, <1>1, <1>2, <1>7 DEF LoginInv, LoginTypes, LoginTypeOK, RunPCs
<1>10. Unopened'
 <2>1. run' = NoRun => run = NoRun
   BY <1>6
 <2>2. QED
   BY <2>1, <1>1, <1>3, <1>4, <1>5, TabFacts DEF LoginInv, Unopened
<1>11. RunTabs'
 <2> SUFFICES ASSUME run # NoRun PROVE RunTabs'
   BY <1>4 DEF RunTabs
 <2>1. PopupOf(run.call) \in Pages /\ RecoveryOf(run.call) \in Pages
   BY RunFacts, TabFacts
 <2>2. run'.shopNav \/ run'.popNav => run'.started
   BY <1>5 DEF LoginInv, RunTabs, ours
 <2>3. QED
   BY <2>1, <2>2, <1>1, <1>3, <1>5 DEF LoginInv, RunTabs
<1>12. RunSlots'
 <2> SUFFICES ASSUME run # NoRun PROVE RunSlots'
   BY <1>4 DEF RunSlots
 <2>1. Transient(run') = Transient(run) /\ Durable(run') = Durable(run)
   BY <1>5 DEF Transient, Durable
 <2>2. slots.provider # None => (Open(slots.provider)' <=> Open(slots.provider))
   BY <1>1, <1>3 DEF LoginInv, LoginTypes, LoginTypeOK, MayPage
 <2>3. attempt' # NoAttempt => attempt # NoAttempt /\ attempt'.provider = attempt.provider
   BY <1>8
 <2>4. QED
   BY <2>1, <2>2, <2>3, <1>1, <1>5 DEF LoginInv, RunSlots
<1>13. IdleSlots'
 <2> SUFFICES ASSUME run = NoRun PROVE IdleSlots'
   BY <1>6 DEF IdleSlots
 <2>1. \A q \in MayPage : Open(q)' <=> Open(q)
   BY <1>3 DEF MayPage, Open
 <2>2. slots.product \in MayPage /\ slots.provider \in MayPage
   BY DEF LoginInv, LoginTypes, LoginTypeOK
 <2>3. QED
   BY <2>1, <2>2, <1>1, <1>3 DEF LoginInv, IdleSlots, Showing, Keeping
<1>14. ToldOK'
 <2>1. \A k \in tally.told : k[2] \in Pages
   BY DEF LoginInv, LoginTypes, TallyType, Keys
 <2>2. attempt' # NoAttempt => /\ attempt # NoAttempt /\ attempt'.call = attempt.call
                               /\ attempt'.epoch = attempt.epoch
                               /\ attempt'.provider = attempt.provider
   BY <1>8
 <2>3. QED
   BY <2>1, <2>2, <1>1, <1>2, <1>3, <1>4, <1>5, <1>6, <1>7 DEF LoginInv, ToldOK
<1>15. AttemptOK'
 <2>1. attempt' # NoAttempt => attempt # NoAttempt /\ attempt'.call = attempt.call
   BY <1>8
 <2>2. QED
   BY <2>1, <1>1, <1>4, <1>5, <1>6 DEF LoginInv, AttemptOK
<1>16. DenialsOK'
  BY <1>1, <1>5, <1>6, <1>7 DEF LoginInv, DenialsOK, ours
<1>17. ReturnsOK'
 <2>1. CompletedByReturn'
   BY <1>1, <1>7 DEF LoginInv, ReturnsOK, CompletedByReturn
 <2>2. ASSUME run # NoRun,
              \/ run'.returned # None
              \/ run'.shopNav /\ at'[run'.product] = "return"
              \/ run'.popup # None /\ run'.popNav /\ at'[run'.popup] = "return"
              \/ run'.how = "ok"
       PROVE  run'.call \in tally'.returns
  <3>1. run.call \in tally.returns => run'.call \in tally'.returns
    BY <2>2, <1>5, <1>7
  <3>2. ours /\ to = "return" => run'.call \in tally'.returns
    BY <2>2, <1>5, <1>7
  <3>3. run.product \in Pages /\ (run.popup # None => run.popup \in Pages)
    BY <2>2, RunFacts DEF MayPage
  <3>4. run.shopNav \/ run.popNav => run.started
    BY <2>2 DEF LoginInv, RunTabs
  <3>5. CASE run'.returned # None \/ run'.how = "ok"
    BY <3>1, <3>2, <3>5, <2>2, <1>5 DEF LoginInv, ReturnsOK
  <3>6. CASE run'.shopNav /\ at'[run'.product] = "return"
    BY <3>1, <3>2, <3>3, <3>4, <3>6, <2>2, <1>2, <1>5 DEF LoginInv, ReturnsOK, ours
  <3>7. CASE run'.popup # None /\ run'.popNav /\ at'[run'.popup] = "return"
    BY <3>1, <3>2, <3>3, <3>4, <3>7, <2>2, <1>2, <1>5 DEF LoginInv, ReturnsOK, ours
  <3>8. QED
    BY <3>5, <3>6, <3>7, <2>2
 <2>3. QED
   BY <2>1, <2>2, <1>4, <1>5 DEF ReturnsOK
<1>18. OnceEach' /\ EndsOnLiveTab'
  BY <1>7 DEF LoginInv, OnceEach, EndsOnLiveTab
<1>19. QED
  BY <1>9, <1>10, <1>11, <1>12, <1>13, <1>14, <1>15, <1>16, <1>17, <1>18 DEF LoginInv

LEMMA NavigatesKeeps ==
    ASSUME LoginConstants, LoginInv, run.pc # "end", NEW p \in Pages, Navigates(p)
    PROVE  LoginInv'
<1>1. Leads(at[p]) \subseteq Urls
  BY DEF Leads, Urls
<1>2. PICK to \in Urls, scr \in Screens : Navigated(p, to, scr)
  BY <1>1 DEF Navigates
<1>3. QED
  BY <1>2, NavigatedKeeps DEF Navigates

LEMMA RedirectsKeeps ==
    ASSUME LoginConstants, LoginInv, run.pc # "end", Redirects
    PROVE  LoginInv'
<1>1. "provider" \in Urls /\ run.product \in Pages
  BY RunFacts DEF Urls, Redirects, Live
<1>2. PICK scr \in Screens : Navigated(run.product, "provider", scr)
  BY DEF Redirects
<1>3. QED
  BY <1>1, <1>2, NavigatedKeeps DEF Redirects

LEMMA PopsKeeps ==
    ASSUME LoginConstants, LoginInv, Pops
    PROVE  LoginInv'
<1> DEFINE p == PopupOf(run.call)
           k == [run EXCEPT !.popup = p]
<1>1. /\ run # NoRun /\ run.pc = "race" /\ run.popup = None /\ run \in RunType
      /\ run.call \in Calls /\ run.product \in Pages
      /\ run.recovery = RecoveryOf(run.call) /\ Open(run.recovery) /\ at[p] = "none"
      /\ run.product # p /\ run.provider = None /\ slots.provider = None /\ slots.completion = None
  BY RunFacts DEF Pops, Live, LoginInv, RunTabs, RunSlots
<1>2. p \in Pages /\ run.recovery \in Pages /\ run.recovery # p /\ p # None
  BY <1>1, TabFacts
<1>3. PICK scr \in Screens :
        /\ at' = [at EXCEPT ![p] = "provider"] /\ screen' = [screen EXCEPT ![p] = scr]
        /\ run' = Seen(k, p, "provider")
  BY DEF Pops, PopupOf
<1>4. /\ turns' = turns + 1 /\ turns < MaxTurns
      /\ UNCHANGED <<doc, slots, restore, attempt, phases, outcome, tally>>
  BY DEF Pops
<1>5. k \in RunType /\ k.pc = run.pc /\ k.call = run.call /\ k.product = run.product
      /\ k.recovery = run.recovery /\ k.popup = p /\ k.provider = run.provider
      /\ k.started = run.started /\ k.pending = run.pending /\ k.how = run.how
      /\ k.denied = run.denied /\ k.returned = run.returned /\ k.shopNav = run.shopNav
      /\ k.popNav = run.popNav
  BY <1>1, <1>2 DEF RunType, MayPage
<1> HIDE DEF k
<1>6. /\ run' \in RunType /\ run'.pc = run.pc /\ run'.call = run.call /\ run'.product = run.product
      /\ run'.recovery = run.recovery /\ run'.popup = p /\ run'.provider = run.provider
      /\ run'.started = run.started /\ run'.pending = run.pending /\ run'.how = run.how
      /\ run.denied => run'.denied
      /\ run'.returned # None => run.returned # None
      /\ run'.shopNav => run.shopNav
      /\ run'.popNav => run.popNav \/ run.started
 <2>1. "provider" \in Urls
   BY DEF Urls
 <2>2. QED
   BY <1>1, <1>2, <1>3, <1>5, <2>1, SeenIs
<1>7. /\ at \in [Pages -> Urls \cup {"none", "closed"}] /\ screen \in [Pages -> Screens]
      /\ turns \in 0..MaxTurns
  BY DEF LoginInv, LoginTypes, LoginTypeOK
<1>8. /\ at' \in [Pages -> Urls \cup {"none", "closed"}] /\ screen' \in [Pages -> Screens]
      /\ turns' \in 0..MaxTurns
      /\ \A q \in Pages : q # p => at'[q] = at[q] /\ screen'[q] = screen[q]
      /\ at'[p] = "provider"
  BY <1>2, <1>3, <1>4, <1>7 DEF LoginConstants, Urls
<1>9. \A q \in Pages : q # p => (Open(q)' <=> Open(q))
  BY <1>8 DEF Open
<1> HIDE DEF p
<1>10. run' # NoRun
  BY <1>6, RunIs
<1>11. LoginTypes'
 <2>1. run'.pc \in RunPCs
   BY <1>6 DEF RunType
 <2>2. QED
   BY <2>1, <1>4, <1>6, <1>8 DEF LoginInv, LoginTypes, LoginTypeOK, RunPCs
<1>12. Unopened'
  BY <1>1, <1>4, <1>6, <1>8, <1>10, TabFacts DEF LoginInv, Unopened, p
<1>13. RunTabs'
 <2>1. Open(run.recovery)' /\ outcome'[run.call] = "none" /\ RecoveryOf(run.call) # p
   BY <1>1, <1>2, <1>4, <1>6, <1>9 DEF LoginInv, RunTabs
 <2>2. run'.shopNav \/ run'.popNav => run'.started
   BY <1>1, <1>6 DEF LoginInv, RunTabs
 <2>3. \A q \in Pages : Open(q)' => q \in {Product, run.product, p, run.recovery}
   BY <1>1, <1>9 DEF LoginInv, RunTabs, Open
 <2>4. run.product \notin {p, RecoveryOf(run.call)}
   BY <1>1 DEF LoginInv, RunTabs
 <2>5. None \notin {p, run.recovery}
   BY <1>2, TabFacts
 <2>6. run'.recovery = run.recovery
   BY <1>6
 <2>7. QED
   BY <2>1, <2>2, <2>3, <2>4, <2>5, <2>6, <1>1, <1>6, <1>10 DEF RunTabs, p
<1>14. RunSlots'
  BY <1>1, <1>4, <1>6 DEF LoginInv, RunSlots
<1>15. IdleSlots'
  BY <1>10 DEF IdleSlots
<1>16. ToldOK'
 <2>1. \A t \in tally.told : t[2] \in Pages /\ t[2] # p
   BY <1>1 DEF LoginInv, LoginTypes, TallyType, Keys, ToldOK
 <2>2. QED
   BY <2>1, <1>1, <1>4, <1>6, <1>8, <1>9, <1>10 DEF LoginInv, ToldOK
<1>17. AttemptOK' /\ DenialsOK'
  BY <1>1, <1>4, <1>6, <1>10 DEF LoginInv, AttemptOK, DenialsOK
<1>18. ReturnsOK'
  BY <1>1, <1>4, <1>6, <1>8 DEF LoginInv, ReturnsOK, CompletedByReturn
<1>19. OnceEach' /\ EndsOnLiveTab'
  BY <1>4 DEF LoginInv, OnceEach, EndsOnLiveTab
<1>20. QED
  BY <1>11, <1>12, <1>13, <1>14, <1>15, <1>16, <1>17, <1>18, <1>19 DEF LoginInv

LEMMA RepaintsKeeps ==
    ASSUME LoginConstants, LoginInv, NEW p \in Pages, Repaints(p)
    PROVE  LoginInv'
<1>1. PICK scr \in Screens : screen' = [screen EXCEPT ![p] = scr]
  BY DEF Repaints
<1>2. /\ turns' = turns + 1 /\ turns < MaxTurns
      /\ tally' = [tally EXCEPT !.told = {k \in @ : k[2] # p}]
      /\ UNCHANGED <<at, doc, slots, restore, attempt, phases, run, outcome>>
  BY DEF Repaints
<1>3. tally \in TallyType /\ screen \in [Pages -> Screens] /\ turns \in 0..MaxTurns
  BY DEF LoginInv, LoginTypes, LoginTypeOK
<1>4. /\ tally' \in TallyType /\ tally'.told = {k \in tally.told : k[2] # p}
      /\ tally'.returns = tally.returns /\ tally'.denials = tally.denials
      /\ tally'.repeated = tally.repeated /\ tally'.dead = tally.dead
 <2> DEFINE told == {k \in tally.told : k[2] # p}
 <2>1. told \in SUBSET Keys
   BY <1>3 DEF TallyType
 <2>2. tally' = [tally EXCEPT !.told = told]
   BY <1>2, <1>3 DEF TallyType
 <2> HIDE DEF told
 <2>3. tally' \in TallyType /\ tally'.told = told /\ tally'.returns = tally.returns
       /\ tally'.denials = tally.denials /\ tally'.repeated = tally.repeated
       /\ tally'.dead = tally.dead
   BY <1>3, <2>1, <2>2 DEF TallyType
 <2>4. QED
   BY <2>3 DEF told
<1>5. /\ screen' \in [Pages -> Screens] /\ turns' \in 0..MaxTurns
      /\ \A q \in Pages : q # p => screen'[q] = screen[q]
  BY <1>1, <1>2, <1>3 DEF LoginConstants
<1>6. LoginTypes'
  BY <1>2, <1>4, <1>5 DEF LoginInv, LoginTypes, LoginTypeOK
<1>7. Unopened' /\ RunTabs' /\ RunSlots' /\ IdleSlots' /\ AttemptOK'
  BY <1>2 DEF LoginInv, Unopened, RunTabs, RunSlots, IdleSlots, Showing, Keeping, AttemptOK, Open
<1>8. ToldOK'
 <2>1. \A t \in tally.told : t[2] \in Pages
   BY DEF LoginInv, LoginTypes, TallyType, Keys
 <2>2. QED
   BY <2>1, <1>2, <1>4, <1>5 DEF LoginInv, ToldOK, Open
<1>9. DenialsOK' /\ ReturnsOK' /\ OnceEach' /\ EndsOnLiveTab'
  BY <1>2, <1>4 DEF LoginInv, DenialsOK, ReturnsOK, CompletedByReturn, OnceEach, EndsOnLiveTab
<1>10. QED
  BY <1>6, <1>7, <1>8, <1>9 DEF LoginInv

LEMMA LoginStarts == LoginConstants /\ LoginInit => LoginInv
<1> SUFFICES ASSUME LoginConstants, LoginInit PROVE LoginInv
  OBVIOUS
<1>1. /\ \A p \in Pages : at[p] = IF p = Product THEN "app" ELSE "none"
      /\ slots.page = Product /\ slots.product = None /\ slots.provider = None
      /\ slots.completion = None /\ slots.source = None
      /\ tally.told = {} /\ tally.denials = {} /\ ~tally.repeated /\ ~tally.dead
      /\ run = NoRun /\ attempt = NoAttempt /\ outcome = [c \in Calls |-> "none"]
  BY DEF LoginInit
<1>2. \A p \in Pages : Open(p) => p = Product
  BY <1>1 DEF Open, Urls
<1>3. LoginTypes
 <2>1. at \in [Pages -> Urls \cup {"none", "closed"}]
   BY DEF LoginInit, Urls
 <2>2. screen \in [Pages -> Screens] /\ doc \in [Pages -> Nat] /\ restore \in [Pages -> MayPage]
   BY DEF LoginInit, Screens, MayPage
 <2>3. slots \in [page : Pages, product : MayPage, provider : MayPage,
                  closed : BOOLEAN, completion : MayPage, source : MayPage]
   BY TabFacts DEF LoginInit, MayPage
 <2>4. turns \in 0..MaxTurns
   BY DEF LoginInit, LoginConstants
 <2>5. tally \in TallyType
   BY DEF LoginInit, TallyType
 <2>6. QED
   BY <2>1, <2>2, <2>3, <2>4, <2>5, <1>1 DEF LoginTypes, LoginTypeOK
<1>4. Unopened
  BY <1>1, TabFacts DEF Unopened
<1>5. RunTabs /\ RunSlots /\ ToldOK /\ AttemptOK
  BY <1>1 DEF RunTabs, RunSlots, ToldOK, AttemptOK
<1>6. IdleSlots
  BY <1>1, <1>2 DEF IdleSlots
<1>7. DenialsOK /\ ReturnsOK /\ OnceEach /\ EndsOnLiveTab
  BY <1>1 DEF DenialsOK, ReturnsOK, CompletedByReturn, OnceEach, EndsOnLiveTab
<1>8. QED
  BY <1>3, <1>4, <1>5, <1>6, <1>7 DEF LoginInv

LEMMA FinishKeeps ==
    ASSUME LoginConstants, LoginInv, run # NoRun, Finish
    PROVE  LoginInv'
<1> DEFINE tab == Transient(run)
           showing == run.pending /\ Open(tab)
           moved == slots.provider # tab
           durable == IF run.provider = None THEN run.recovery ELSE run.product
           pg == IF showing THEN tab ELSE IF Open(Retained(run)) THEN Retained(run) ELSE Product
           keeps == pg = run.product /\ Open(run.product) /\ Open(slots.completion)
           pd == IF showing THEN (IF moved THEN durable ELSE slots.product)
                 ELSE IF keeps THEN run.product ELSE None
           pv == IF showing THEN tab ELSE IF keeps THEN slots.completion ELSE None
           shut == Shut(run, pg, pd, showing)
           cl == IF showing /\ ~moved THEN slots.closed ELSE FALSE
           src == IF run.how = "ok" THEN slots.completion ELSE slots.source
           left == {p \in Pages : Open(p)} \ shut
           de == tally.dead \/ (pg \notin left /\ left # {})
           ba == tally.bare \/ (showing /\ pd \notin left)
<1>1. /\ run.pc = "end" /\ run' = NoRun /\ UNCHANGED <<screen, doc, phases, turns>>
      /\ slots' = [slots EXCEPT !.page = pg, !.product = pd, !.provider = pv,
                                !.closed = IF showing /\ ~moved THEN @ ELSE FALSE,
                                !.source = IF run.how = "ok" THEN slots.completion ELSE @]
      /\ attempt' = IF ~showing THEN NoAttempt
                    ELSE IF moved /\ attempt # NoAttempt
                           THEN [attempt EXCEPT !.provider = tab, !.doc = doc[tab]]
                    ELSE attempt
      /\ restore' = IF showing /\ moved THEN [restore EXCEPT ![tab] = durable] ELSE restore
      /\ at' = [p \in Pages |-> IF p \in shut THEN "closed" ELSE at[p]]
      /\ outcome' = [outcome EXCEPT ![run.call] = run.how]
      /\ tally' = [tally EXCEPT !.dead = @ \/ (pg \notin left /\ left # {}),
                                !.bare = @ \/ (showing /\ pd \notin left)]
  BY DEF Finish
<1>2. /\ slots \in SlotsType /\ tally \in TallyType /\ restore \in [Pages -> MayPage]
      /\ doc \in [Pages -> Nat]
  BY DEF LoginInv, LoginTypes, LoginTypeOK, SlotsType
<1>3. /\ run.product \in Pages /\ tab \in Pages /\ run.recovery \in MayPage
      /\ run.provider \in MayPage /\ run.provider = run.popup /\ run.pending \in BOOLEAN
  BY <1>1, RunFacts DEF LoginInv, RunTabs
<1>4. durable \in MayPage /\ Product \in Pages /\ None \in MayPage /\ None \notin Pages
      /\ (run.recovery # None => run.recovery # run.product /\ run.recovery # run.popup)
      /\ (run.popup # None => run.popup # run.product)
 <2>1. run.call \in Calls
   BY RunFacts
 <2>2. PopupOf(run.call) # RecoveryOf(run.call)
   BY <2>1, TabFacts
 <2>3. QED
   BY <2>2, <1>1, <1>3, TabFacts DEF MayPage, LoginInv, RunTabs
<1>5. Retained(run) \in MayPage
  BY <1>3 DEF Retained, MayPage
<1>6. pg \in Pages
  BY <1>3, <1>4, <1>5 DEF MayPage, Open
<1>7. pd \in MayPage /\ pv \in MayPage /\ cl \in BOOLEAN /\ src \in MayPage
  BY <1>2, <1>3, <1>4 DEF SlotsType, MayPage
<1>8. slots' = [slots EXCEPT !.page = pg, !.product = pd, !.provider = pv, !.closed = cl,
                             !.source = src]
  BY <1>1, <1>2 DEF SlotsType
<1>9. tally' = [tally EXCEPT !.dead = de, !.bare = ba] /\ de \in BOOLEAN /\ ba \in BOOLEAN
 <2>1. tally.dead \in BOOLEAN /\ tally.bare \in BOOLEAN
   BY <1>2 DEF TallyType
 <2>2. tally' = [tally EXCEPT !.dead = de, !.bare = ba]
   BY <1>1, <1>2 DEF TallyType
 <2> HIDE DEF left, pg, pd, showing
 <2>3. QED
   BY <2>1, <2>2
<1>10. shut \in SUBSET {p \in Pages : Open(p)} /\ \A p \in shut : p \in {run.popup, run.recovery}
  BY <1>3, <1>4 DEF Shut, Open, MayPage
<1>11. /\ slots' \in SlotsType /\ slots'.page = pg /\ slots'.product = pd /\ slots'.provider = pv
       /\ slots'.closed = cl /\ slots'.source = src
 <2> HIDE DEF pg, pd, pv, cl, src
 <2>1. QED
   BY <1>2, <1>6, <1>7, <1>8 DEF SlotsType
<1>12. /\ tally' \in TallyType /\ tally'.told = tally.told
       /\ tally'.returns = tally.returns /\ tally'.denials = tally.denials
       /\ tally'.repeated = tally.repeated /\ tally'.dead = de
 <2> HIDE DEF de, ba
 <2>1. QED
   BY <1>2, <1>9 DEF TallyType
<1>13. /\ at' \in [Pages -> Urls \cup {"none", "closed"}]
       /\ \A q \in Pages : at'[q] = IF q \in shut THEN "closed" ELSE at[q]
 <2>1. at \in [Pages -> Urls \cup {"none", "closed"}]
   BY DEF LoginInv, LoginTypes, LoginTypeOK
 <2>2. at' = [q \in Pages |-> IF q \in shut THEN "closed" ELSE at[q]]
   BY <1>1
 <2> HIDE DEF shut
 <2>3. QED
   BY <2>1, <2>2
<1>14. \A q \in Pages : /\ at'[q] = "none" <=> at[q] = "none"
                        /\ Open(q)' <=> Open(q) /\ q \notin shut
  BY <1>10, <1>13 DEF Open, Urls
<1>15. /\ run \in RunType /\ run.call \in Calls /\ run.how \in Hows \ {"none"}
       /\ outcome[run.call] = "none"
  BY <1>1, RunFacts DEF LoginInv, RunTabs
<1>16. /\ outcome' \in [Calls -> {"none", "ok", "awaiting", "challenge", "onboarding", "denied",
                                  "failed", "refused", "not_attempted"}]
       /\ outcome'[run.call] = run.how
       /\ \A c \in Calls : c # run.call => outcome'[c] = outcome[c]
 <2>1. outcome \in [Calls -> {"none", "ok", "awaiting", "challenge", "onboarding", "denied",
                              "failed", "refused", "not_attempted"}]
   BY DEF LoginInv, LoginTypes, LoginTypeOK
 <2>2. outcome' = [outcome EXCEPT ![run.call] = run.how]
   BY <1>1
 <2>3. QED
   BY <2>1, <2>2, <1>15 DEF Hows
<1>17. restore' \in [Pages -> MayPage] /\ (showing /\ moved => restore'[tab] = durable)
       /\ (~(showing /\ moved) => restore' = restore)
 <2>1. restore' = IF showing /\ moved THEN [restore EXCEPT ![tab] = durable] ELSE restore
   BY <1>1
 <2> HIDE DEF showing, moved, tab, durable
 <2>2. QED
   BY <2>1, <1>2, <1>3, <1>4
<1>18. \/ attempt' = NoAttempt
       \/ showing /\ ~moved /\ attempt' = attempt /\ attempt # NoAttempt
       \/ /\ showing /\ moved /\ attempt # NoAttempt
          /\ attempt' \in AttemptType /\ attempt'.call = attempt.call
 <2>1. CASE showing /\ moved /\ attempt # NoAttempt
  <3>1. attempt \in AttemptType /\ doc[tab] \in Int /\ tab \in MayPage
    BY <2>1, <1>2, <1>3 DEF LoginInv, LoginTypes, MayPage
  <3>2. attempt' = [attempt EXCEPT !.provider = tab, !.doc = doc[tab]]
    BY <2>1, <1>1
  <3> HIDE DEF tab, showing, moved
  <3>3. attempt' \in AttemptType /\ attempt'.call = attempt.call
    BY <3>1, <3>2 DEF AttemptType
  <3>4. QED
    BY <2>1, <3>3
 <2>2. CASE ~(showing /\ moved /\ attempt # NoAttempt)
  <3>1. attempt' = IF ~showing THEN NoAttempt
                   ELSE IF moved /\ attempt # NoAttempt
                          THEN [attempt EXCEPT !.provider = tab, !.doc = doc[tab]]
                   ELSE attempt
    BY <1>1
  <3> HIDE DEF tab, showing, moved
  <3>2. QED
    BY <2>2, <3>1
 <2>3. QED
   BY <2>1, <2>2
<1>19. LoginTypes'
 <2>1. attempt' = NoAttempt \/ attempt' \in AttemptType
   BY <1>18 DEF LoginInv, LoginTypes
 <2>2. attempt' = NoAttempt \/ attempt'.call \in Calls
   BY <2>1 DEF AttemptType
 <2> HIDE DEF shut, pg, pd, pv, cl, src, de, showing, moved, tab, durable
 <2>3. QED
   BY <2>1, <2>2, <1>1, <1>11, <1>12, <1>13, <1>16, <1>17
      DEF LoginInv, LoginTypes, LoginTypeOK, SlotsType
<1>20. Unopened'
  BY <1>1, <1>14, <1>15, <1>16, TabFacts DEF LoginInv, Unopened
<1>21. RunTabs' /\ RunSlots'
  BY <1>1 DEF RunTabs, RunSlots
<1>22. ToldOK'
 <2>1. \A k \in tally.told : k[1] \in Calls /\ k[2] \in Pages
   BY DEF LoginInv, LoginTypes, TallyType, Keys
 <2>2. ASSUME NEW k \in tally.told, attempt' # NoAttempt, attempt'.call = k[1]
       PROVE  attempt'.epoch = k /\ attempt'.provider = k[2]
  <3>1. attempt # NoAttempt /\ attempt.call = k[1] /\ k[1] = run.call
    BY <2>2, <1>18 DEF LoginInv, AttemptOK
  <3>2. slots.provider # None
    BY <3>1, <1>15 DEF LoginInv, ToldOK
  <3>3. ~moved
    BY <3>2 DEF LoginInv, RunSlots
  <3>4. attempt' = attempt
    BY <3>3, <2>2, <1>18
  <3>5. QED
    BY <3>1, <3>4 DEF LoginInv, ToldOK
 <2> HIDE DEF shut, de, showing, moved
 <2>3. QED
   BY <2>1, <2>2, <1>1, <1>12, <1>14, <1>15, <1>16 DEF LoginInv, ToldOK
<1>23. AttemptOK'
  BY <1>1, <1>15, <1>16, <1>18 DEF LoginInv, AttemptOK
<1>24. DenialsOK'
 <2>1. \A c \in tally.denials : c \in Calls
   BY <1>2 DEF TallyType
 <2>2. run.denied => run.how = "denied"
   BY <1>1 DEF LoginInv, ReturnsOK
 <2>3. QED
   BY <2>1, <2>2, <1>12, <1>15, <1>16 DEF LoginInv, DenialsOK
<1>25. ReturnsOK' /\ OnceEach'
  BY <1>1, <1>12, <1>15, <1>16 DEF LoginInv, ReturnsOK, CompletedByReturn, OnceEach
<1>26. /\ \A p \in Pages : Open(p) => p \in {Product, run.product, run.popup, run.recovery}
       /\ run.recovery # None => Open(run.recovery)
       /\ run.recovery = None => run.popup = None /\ ~run.pending
       /\ ~Open(None)
  BY DEF LoginInv, RunTabs, Open
<1>27. slots.completion # None => run.how = "ok" /\ slots.completion \in {run.product, run.provider}
  BY DEF LoginInv, RunSlots
<1>28. CASE showing
 <2>1. pg = tab /\ pv = tab /\ pd = durable /\ ~cl
  <3>1. ~moved => slots.product = durable /\ ~slots.closed
    BY <1>3, <1>4, <1>28 DEF LoginInv, RunSlots, Durable
  <3>2. QED
    BY <3>1, <1>28
 <2>2. restore'[tab] = durable
   BY <1>3, <1>4, <1>17, <1>28 DEF LoginInv, RunSlots, Durable
 <2>3. durable \in Pages /\ durable # None /\ tab # None /\ Open(tab)
   BY <1>3, <1>4, <1>26, <1>28 DEF MayPage
 <2>4. tab = (IF run.provider # None THEN run.provider ELSE run.product)
   BY DEF Transient
 <2>5. \A q \in shut : q = run.recovery /\ run.provider # None
   BY <1>3, <1>4, <1>26, <1>28, <2>1, <2>4 DEF Shut
 <2>6. run.provider # None /\ run.recovery # None => run.recovery \in shut
   BY <1>3, <1>4, <1>26, <1>28, <2>1, <2>4 DEF Shut
 <2>7. tab \notin shut
   BY <2>3, <2>4, <2>5, <1>3, <1>4
 <2>8. at'[tab] \in Urls
   BY <2>3, <2>7, <1>3, <1>13 DEF Open
 <2>9. src \in {None, durable, tab}
   BY <1>27, <2>4 DEF LoginInv, RunSlots
 <2> HIDE DEF pg, pv, pd, cl, src, de, showing, moved, durable, left
 <2>10. \A q \in Pages : Open(q)' => q \in {Product, durable, tab}
   BY <2>4, <2>6, <1>3, <1>14, <1>26 DEF durable
 <2> HIDE DEF shut, tab
 <2>11. Showing'
  <3>1. slots'.page = tab /\ slots'.provider = tab /\ slots'.product = durable
        /\ slots'.source \in {None, durable, tab}
    BY <1>11, <2>1, <2>9
  <3>2. restore'[slots'.provider] = slots'.product
    BY <3>1, <2>2
  <3>3. Open(slots.provider)'
    BY <3>1, <2>3, <2>8 DEF Open
  <3>4. QED
    BY <3>1, <3>2, <3>3 DEF Showing
 <2>12. IdleSlots'
  <3>1. slots'.provider = tab /\ slots'.product = durable /\ ~slots'.closed
    BY <1>11, <2>1
  <3>2. QED
    BY <3>1, <2>3, <2>10, <2>11 DEF IdleSlots
 <2>13. EndsOnLiveTab'
  <3>1. pg \in left
    BY <2>1, <2>3, <2>7, <1>3 DEF left
  <3>2. tally'.dead = tally.dead
    BY <3>1, <1>2, <1>12 DEF de, TallyType
  <3>3. QED
    BY <3>2 DEF LoginInv, EndsOnLiveTab
 <2>14. QED
   BY <2>12, <2>13, <1>19, <1>20, <1>21, <1>22, <1>23, <1>24, <1>25 DEF LoginInv
<1>29. CASE ~showing
 <2>1. ~cl /\ pd = (IF keeps THEN run.product ELSE None)
       /\ pv = (IF keeps THEN slots.completion ELSE None)
       /\ pg = (IF Open(Retained(run)) THEN Retained(run) ELSE Product)
   BY <1>29
 <2>2. \A q \in Pages : q \in shut <=>
         /\ Open(q)
         /\ (q = run.recovery /\ q # pg) \/ (q = run.popup /\ q # slots.completion)
   BY <1>3, <1>4, <1>29 DEF Shut, Open, MayPage
 <2>3. Open(run.product) => pg = run.product
   BY <2>1 DEF Retained
 <2> HIDE DEF pg, pd, pv, src, cl, de, left, shut, showing, moved, durable, tab
 <2>4. slots.completion # None => src = slots.completion
   BY <1>27 DEF src
 <2>5. \A q \in Pages : Open(q)' =>
         q = Product \/ q = pg \/ (q = slots.completion /\ slots.completion # None)
   BY <2>2, <2>3, <1>4, <1>14, <1>26
 <2>6. ASSUME keeps PROVE IdleSlots'
  <3>1. /\ slots'.page = run.product /\ slots'.product = run.product /\ pg = run.product
        /\ slots'.provider = slots.completion /\ slots'.source = slots.completion
        /\ ~slots'.closed /\ slots.completion # None
    BY <2>1, <2>4, <2>6, <1>11, <1>26
  <3>2. Keeping'
    BY <3>1 DEF Keeping
  <3>3. run.product # None
    BY <1>3, <1>4
  <3>4. \A q \in Pages : Open(q)' => q \in {Product, slots'.product, slots'.provider}
    BY <3>1, <2>5
  <3> HIDE DEF keeps
  <3>5. QED
    BY <3>1, <3>2, <3>3, <3>4 DEF IdleSlots
 <2>7. ASSUME ~keeps PROVE IdleSlots'
  <3>1. slots'.product = None /\ slots'.provider = None /\ slots'.page = pg
        /\ slots'.source = src
    BY <2>1, <2>7, <1>11
  <3>2. \A q \in Pages : Open(q)' => q \in {Product, slots'.page, slots'.source}
    BY <3>1, <2>4, <2>5
  <3> HIDE DEF keeps
  <3>3. QED
    BY <3>1, <3>2 DEF IdleSlots
 <2>8. EndsOnLiveTab'
  <3>1. left # {} => pg \in left
   <4>1. CASE Open(run.product)
    <5>1. run.product \notin shut
      BY <4>1, <1>3, <1>4, <2>2, <1>26 DEF MayPage
    <5>2. QED
      BY <5>1, <4>1, <2>3, <1>3 DEF left
   <4>2. CASE ~Open(run.product) /\ run.recovery # None
    <5>1. pg = run.recovery
      BY <4>2, <2>1, <1>26 DEF Retained
    <5>2. run.recovery \in Pages /\ run.recovery \notin shut
      BY <4>2, <5>1, <2>2, <1>3, <1>4 DEF MayPage
    <5>3. QED
      BY <5>1, <5>2, <4>2, <1>26 DEF left
   <4>3. CASE ~Open(run.product) /\ run.recovery = None
    <5>1. pg = Product /\ run.popup = None
      BY <4>3, <2>1, <1>26 DEF Retained
    <5>2. \A q \in left : q = Product
      BY <4>3, <5>1, <1>4, <1>26 DEF left
    <5>3. QED
      BY <5>1, <5>2
   <4>4. QED
     BY <4>1, <4>2, <4>3
  <3>2. tally'.dead = tally.dead
    BY <3>1, <1>2, <1>12 DEF de, TallyType
  <3>3. QED
    BY <3>2 DEF LoginInv, EndsOnLiveTab
 <2>9. QED
   BY <2>6, <2>7, <2>8, <1>19, <1>20, <1>21, <1>22, <1>23, <1>24, <1>25 DEF LoginInv
<1>30. QED
  BY <1>28, <1>29

(* What a closing tab leaves of the slots. *)
LEMMA ClosesIs ==
    ASSUME LoginConstants, LoginInv, NEW p \in Pages, Open(p), Closes(p)
    PROVE  /\ slots' \in SlotsType /\ slots'.product = slots.product
           /\ slots'.provider = slots.provider /\ slots'.source = slots.source
           /\ slots'.completion \in {slots.completion, None}
           /\ slots'.closed => slots.closed \/ slots.provider = p
           /\ Open(slots.page) /\ slots.page # p => slots'.page = slots.page
           /\ restore[p] # None /\ Open(restore[p]) /\ restore[p] # p /\ slots.page = p =>
                slots'.page = restore[p]
<1> DEFINE back == restore[p]
           cl == slots.closed \/ slots.provider = p
           co == IF slots.completion = p THEN None ELSE slots.completion
           s == [slots EXCEPT !.closed = cl, !.completion = co]
           rest == {q \in Pages : Open(q)} \ {p}
           calm == {q \in rest : at[q] # "provider"}
           pg == IF slots.page = p \/ slots.page \notin rest THEN back ELSE slots.page
           new == Newest(IF calm # {} THEN calm ELSE rest)
<1>1. slots \in SlotsType /\ back \in MayPage
  BY DEF LoginInv, LoginTypes, LoginTypeOK, SlotsType
<1>2. /\ s = [slots EXCEPT !.closed = @ \/ slots.provider = p,
                           !.completion = IF @ = p THEN None ELSE @]
      /\ s.page = slots.page
  BY <1>1 DEF SlotsType
<1>3. slots' = IF back = None THEN slots
               ELSE IF back \in rest THEN [s EXCEPT !.page = pg]
               ELSE IF rest = {} \/ slots.page \in rest THEN s
               ELSE [s EXCEPT !.page = new]
  BY <1>2 DEF Closes
<1>4. cl \in BOOLEAN /\ co \in MayPage /\ co \in {slots.completion, None}
  BY <1>1 DEF SlotsType, MayPage
<1>5. \A q \in Pages : q \in rest <=> Open(q) /\ q # p
  OBVIOUS
<1>6. back \in rest => pg \in Pages
  BY <1>1 DEF SlotsType
<1>7. rest # {} => new \in Pages
  BY NewestIs
<1> HIDE DEF rest, calm, new, pg, cl, co
<1>8. \A g \in Pages :
        LET t == [s EXCEPT !.page = g]
        IN /\ t \in SlotsType /\ t.product = slots.product /\ t.provider = slots.provider
           /\ t.source = slots.source /\ t.completion = co /\ t.closed = cl /\ t.page = g
  BY <1>1, <1>4 DEF SlotsType
<1>9. s \in SlotsType /\ s.product = slots.product /\ s.provider = slots.provider
      /\ s.source = slots.source /\ s.completion = co /\ s.closed = cl /\ s.page = slots.page
  BY <1>1, <1>4 DEF SlotsType
<1>10. slots.page \in Pages
  BY <1>1 DEF SlotsType
<1> HIDE DEF s
<1>11. CASE back = None
  BY <1>1, <1>3, <1>11
<1>12. CASE back # None /\ back \in rest
 <2>1. slots' = [s EXCEPT !.page = pg]
   BY <1>3, <1>12
 <2>2. pg = IF slots.page = p \/ slots.page \notin rest THEN back ELSE slots.page
   BY DEF pg
 <2>3. QED
   BY <2>1, <2>2, <1>4, <1>5, <1>6, <1>8, <1>10, <1>12 DEF cl
<1>13. CASE back # None /\ back \notin rest /\ (rest = {} \/ slots.page \in rest)
 <2>1. slots' = s /\ back \in Pages
   BY <1>1, <1>3, <1>13 DEF MayPage
 <2>2. QED
   BY <2>1, <1>4, <1>5, <1>9, <1>10, <1>13 DEF cl
<1>14. CASE back # None /\ back \notin rest /\ rest # {} /\ slots.page \notin rest
 <2>1. slots' = [s EXCEPT !.page = new] /\ back \in Pages
   BY <1>1, <1>3, <1>14 DEF MayPage
 <2>2. QED
   BY <2>1, <1>4, <1>5, <1>7, <1>8, <1>10, <1>14 DEF cl
<1>15. QED
  BY <1>11, <1>12, <1>13, <1>14

LEMMA ClosesKeeps ==
    ASSUME LoginConstants, LoginInv, run.pc # "end", NEW p \in Pages, Closes(p)
    PROVE  LoginInv'
<1>1. /\ Open(p) /\ p[1] # "recovery" /\ turns < MaxTurns /\ turns' = turns + 1
      /\ at' = [at EXCEPT ![p] = "closed"]
      /\ screen' = [screen EXCEPT ![p] = "login"] /\ restore' = [restore EXCEPT ![p] = None]
      /\ tally' = [tally EXCEPT !.told = {k \in @ : k[2] # p}]
      /\ UNCHANGED <<doc, attempt, phases, run, outcome>>
  BY DEF Closes
<1>2. /\ at \in [Pages -> Urls \cup {"none", "closed"}] /\ screen \in [Pages -> Screens]
      /\ restore \in [Pages -> MayPage] /\ turns \in 0..MaxTurns /\ tally \in TallyType
      /\ slots \in SlotsType
  BY DEF LoginInv, LoginTypes, LoginTypeOK, SlotsType
<1>3. /\ slots' \in SlotsType /\ slots'.product = slots.product
      /\ slots'.provider = slots.provider /\ slots'.source = slots.source
      /\ slots'.completion \in {slots.completion, None}
      /\ slots'.closed => slots.closed \/ slots.provider = p
      /\ Open(slots.page) /\ slots.page # p => slots'.page = slots.page
      /\ restore[p] # None /\ Open(restore[p]) /\ restore[p] # p /\ slots.page = p =>
           slots'.page = restore[p]
  BY <1>1, ClosesIs
<1>4. /\ at' \in [Pages -> Urls \cup {"none", "closed"}] /\ screen' \in [Pages -> Screens]
      /\ restore' \in [Pages -> MayPage] /\ turns' \in 0..MaxTurns
      /\ at'[p] = "closed"
      /\ \A q \in Pages : q # p => /\ at'[q] = at[q] /\ screen'[q] = screen[q]
                                   /\ restore'[q] = restore[q]
  BY <1>1, <1>2 DEF LoginConstants, Screens, MayPage
<1>5. \A q \in MayPage : Open(q)' <=> Open(q) /\ q # p
  BY <1>4 DEF Open, MayPage, Urls
<1>6. \A q \in Pages : at'[q] = "none" <=> at[q] = "none"
  BY <1>1, <1>4 DEF Open, Urls
<1>7. /\ tally' \in TallyType /\ tally'.told = {k \in tally.told : k[2] # p}
      /\ tally'.returns = tally.returns /\ tally'.denials = tally.denials
      /\ tally'.repeated = tally.repeated /\ tally'.dead = tally.dead
 <2> DEFINE told == {k \in tally.told : k[2] # p}
 <2>1. told \in SUBSET Keys
   BY <1>2 DEF TallyType
 <2>2. tally' = [tally EXCEPT !.told = told]
   BY <1>1, <1>2 DEF TallyType
 <2> HIDE DEF told
 <2>3. tally' \in TallyType /\ tally'.told = told /\ tally'.returns = tally.returns
       /\ tally'.denials = tally.denials /\ tally'.repeated = tally.repeated
       /\ tally'.dead = tally.dead
   BY <1>2, <2>1, <2>2 DEF TallyType
 <2>4. QED
   BY <2>3 DEF told
<1>8. /\ slots.page \in Pages /\ slots.product \in MayPage /\ slots.provider \in MayPage
  BY <1>2 DEF SlotsType
<1>9. LoginTypes'
  BY <1>1, <1>3, <1>4, <1>7 DEF LoginInv, LoginTypes, LoginTypeOK, SlotsType
<1>10. Unopened'
  BY <1>1, <1>6, TabFacts DEF LoginInv, Unopened
<1>11. RunTabs'
 <2> SUFFICES ASSUME run # NoRun PROVE RunTabs'
   BY <1>1 DEF RunTabs
 <2>1. run.call \in Calls
   BY RunFacts
 <2>2. PopupOf(run.call) \in Pages /\ RecoveryOf(run.call) \in Pages /\ RecoveryOf(run.call) # p
   BY <2>1, <1>1, TabFacts
 <2>3. run.recovery # None => Open(run.recovery)'
   BY <2>2, <1>1, <1>5 DEF LoginInv, RunTabs, MayPage
 <2>4. \A q \in Pages : Open(q)' => Open(q)
   BY <1>5 DEF MayPage
 <2>5. QED
   BY <2>2, <2>3, <2>4, <1>1, <1>6 DEF LoginInv, RunTabs
<1>12. RunSlots'
 <2> SUFFICES ASSUME run # NoRun PROVE RunSlots'
   BY <1>1 DEF RunSlots
 <2>1. slots'.completion = None
   BY <1>3 DEF LoginInv, RunSlots
 <2>2. Open(slots.provider)' => Open(slots.provider) /\ slots.provider # p /\ slots.provider \in Pages
   BY <1>3, <1>5, <1>8 DEF MayPage, Open
 <2>3. QED
   BY <2>1, <2>2, <1>1, <1>3, <1>4 DEF LoginInv, RunSlots, Transient, Durable
<1>13. IdleSlots'
 <2> SUFFICES ASSUME run = NoRun PROVE IdleSlots'
   BY <1>1 DEF IdleSlots
 <2>1. CASE slots.product = None
   BY <2>1, <1>3, <1>5, <1>8 DEF LoginInv, IdleSlots, MayPage
 <2>2. ASSUME slots.product # None, Showing
       PROVE  Showing'
  <3>1. Open(slots.provider)' =>
          slots'.page = slots'.provider /\ restore'[slots'.provider] = slots'.product
   <4> SUFFICES ASSUME Open(slots.provider)'
                PROVE  slots'.page = slots'.provider /\ restore'[slots'.provider] = slots'.product
     OBVIOUS
   <4>1. Open(slots.provider) /\ slots.provider # p /\ slots.provider \in Pages
     BY <1>3, <1>5, <1>8 DEF MayPage, Open
   <4>2. QED
     BY <4>1, <2>2, <1>3, <1>4 DEF Showing
  <3>2. Open(slots.product)' /\ ~Open(slots.provider)' => slots'.page = slots'.product
   <4> SUFFICES ASSUME Open(slots.product)', ~Open(slots.provider)'
                PROVE  slots'.page = slots.product
     BY <1>3
   <4>1. Open(slots.product) /\ slots.product # p
     BY <1>3, <1>5, <1>8
   <4>2. CASE ~Open(slots.provider)
     BY <4>1, <4>2, <2>2, <1>3 DEF Showing
   <4>3. CASE Open(slots.provider)
    <5>1. slots.provider = p
      BY <4>3, <1>3, <1>5, <1>8
    <5>2. slots.page = p /\ restore[p] = slots.product
      BY <5>1, <4>3, <2>2 DEF Showing
    <5>3. QED
      BY <5>2, <4>1, <2>2, <1>3
   <4>4. QED
     BY <4>2, <4>3
  <3>3. slots'.source \in {None, slots'.product, slots'.provider}
    BY <2>2, <1>3 DEF Showing
  <3>4. QED
    BY <3>1, <3>2, <3>3 DEF Showing
 <2>3. ASSUME slots.product # None, Keeping
       PROVE  Keeping'
  <3>1. Open(slots.product)' => Open(slots.product) /\ slots.product # p
    BY <1>3, <1>5, <1>8
  <3>2. QED
    BY <3>1, <2>3, <1>3 DEF Keeping
 <2>4. slots.product # None =>
         /\ \A q \in Pages : Open(q)' => q \in {Product, slots.product, slots.provider}
         /\ slots'.closed => ~Open(slots.provider)'
   BY <1>3, <1>5, <1>8 DEF LoginInv, IdleSlots, MayPage
 <2>5. CASE slots.product # None
   BY <2>2, <2>3, <2>4, <2>5, <1>3 DEF LoginInv, IdleSlots
 <2>6. QED
   BY <2>1, <2>5
<1>14. ToldOK'
 <2>1. \A t \in tally.told : t[2] \in Pages
   BY DEF LoginInv, LoginTypes, TallyType, Keys
 <2>2. QED
   BY <2>1, <1>1, <1>3, <1>4, <1>5, <1>6, <1>7 DEF LoginInv, ToldOK, MayPage
<1>15. AttemptOK' /\ DenialsOK' /\ OnceEach' /\ EndsOnLiveTab'
  BY <1>1, <1>7 DEF LoginInv, AttemptOK, DenialsOK, OnceEach, EndsOnLiveTab
<1>16. ReturnsOK'
 <2>1. run # NoRun => run.product \in Pages /\ run.popup \in MayPage
   BY RunFacts
 <2>2. QED
   BY <2>1, <1>1, <1>4, <1>7 DEF LoginInv, ReturnsOK, CompletedByReturn, MayPage
<1>17. QED
  BY <1>9, <1>10, <1>11, <1>12, <1>13, <1>14, <1>15, <1>16 DEF LoginInv

LEMMA LoginStep == LoginConstants /\ LoginInv /\ [LoginNext]_loginVars => LoginInv'
<1> SUFFICES ASSUME LoginConstants, LoginInv, [LoginNext]_loginVars
             PROVE  LoginInv'
  OBVIOUS
<1>1. ASSUME NEW c \in Calls, StartLogin(c)
      PROVE  LoginInv'
  BY <1>1, StartLoginKeeps
<1>2. ASSUME run # NoRun,
             \/ Recover \/ Click \/ ClickFails \/ Adopt \/ Settles \/ Onboards
             \/ Lingers \/ Challenges \/ ChallengeEnds \/ Consents \/ Claim \/ Tap \/ Finish
      PROVE  LoginInv'
  BY <1>2, RecoverKeeps, ClickKeeps, ClickFailsKeeps, AdoptKeeps, SettlesKeeps, OnboardsKeeps,
     LingersKeeps, ChallengesKeeps, ChallengeEndsKeeps, ConsentsKeeps, ClaimKeeps, TapKeeps,
     FinishKeeps
<1>3. ASSUME run.pc # "end", Operating
      PROVE  LoginInv'
  BY <1>3, ObserveLoginKeeps, RefreshKeeps, AgesKeeps, SettleKeeps DEF Operating
<1>4. ASSUME run.pc # "end", Outside
      PROVE  LoginInv'
 <2>1. ASSUME NEW p \in Pages, Navigates(p) \/ Repaints(p) \/ Closes(p)
       PROVE  LoginInv'
   BY <1>4, <2>1, NavigatesKeeps, RepaintsKeeps, ClosesKeeps
 <2>2. QED
   BY <1>4, <2>1, RedirectsKeeps, PopsKeeps DEF Outside
<1>5. ASSUME UNCHANGED loginVars
      PROVE  LoginInv'
  BY <1>5 DEF loginVars, LoginInv, LoginTypes, LoginTypeOK, Unopened, RunTabs, RunSlots, IdleSlots,
     Showing, Keeping, ToldOK, AttemptOK, DenialsOK, ReturnsOK, CompletedByReturn, OnceEach,
     EndsOnLiveTab, Open, Transient, Durable
<1>6. QED
  BY <1>1, <1>2, <1>3, <1>4, <1>5 DEF LoginNext, Calling

LEMMA LoginInvariant == LoginConstants => (LoginSpec => []LoginInv)
<1> SUFFICES ASSUME LoginConstants
             PROVE  LoginSpec => []LoginInv
  OBVIOUS
<1>1. LoginInit => LoginInv
  BY LoginStarts
<1>2. LoginInv /\ [LoginNext]_loginVars => LoginInv'
  BY LoginStep
<1>3. QED
  BY <1>1, <1>2, PTL DEF LoginSpec

LEMMA LoginMeans ==
    LoginInv => /\ LoginTypeOK /\ DenialIsReported /\ CompletedByReturn /\ OnceEach
                /\ EndsOnLiveTab /\ NoTabLeft
<1> SUFFICES ASSUME LoginInv
             PROVE  /\ LoginTypeOK /\ DenialIsReported /\ CompletedByReturn /\ OnceEach
                    /\ EndsOnLiveTab /\ NoTabLeft
  OBVIOUS
<1>1. LoginTypeOK /\ CompletedByReturn /\ OnceEach /\ EndsOnLiveTab
  BY DEF LoginInv, LoginTypes, ReturnsOK
<1>2. DenialIsReported
  BY DEF LoginInv, DenialsOK, RunTabs, DenialIsReported
<1>3. NoTabLeft
  BY DEF LoginInv, IdleSlots, NoTabLeft
<1>4. QED
  BY <1>1, <1>2, <1>3

-----------------------------------------------------------------------------
(* OAuthLease: one sign-in at a time. *)

(* The calls hold tickets 1 .. n in the order they entered, the first m of   *)
(* which were given back: each waits for the ticket before its own, and an   *)
(* operation started only with a ticket that was its turn.                   *)
Ticketed(ticket, n, m) ==
  /\ m <= n
  /\ \A c \in Actions : ticket[c] <= n /\ (stage[c] = "idle" <=> ticket[c] = 0)
  /\ \A c, d \in Actions : ticket[c] = ticket[d] /\ ticket[c] # 0 => c = d
  /\ \A c \in Actions : ticket[c] = 1 => ahead[c] = NoAction
  /\ \A c \in Actions : ticket[c] > 1 =>
       ahead[c] \in Actions /\ ticket[ahead[c]] = ticket[c] - 1
  /\ IF n = 0 THEN tail = NoAction ELSE tail \in Actions /\ ticket[tail] = n
  /\ \A c \in Actions : c \in released <=> ticket[c] \in 1 .. m
  /\ \A c \in Actions : stage[c] \in {"running", "ended"} => ticket[c] <= m + 1

LeaseInv ==
  /\ LeaseTypeOK /\ working \cap released = {}
  /\ \E ticket \in [Actions -> Nat], n, m \in Nat : Ticketed(ticket, n, m)

LEMMA LeaseStarts == LeaseInit => LeaseInv
<1> SUFFICES ASSUME LeaseInit PROVE LeaseInv
  OBVIOUS
<1>1. LeaseTypeOK /\ working \cap released = {}
  BY DEF LeaseInit, LeaseTypeOK
<1> DEFINE none == [c \in Actions |-> 0]
<1>2. Ticketed(none, 0, 0)
  BY DEF Ticketed, LeaseInit
<1>3. none \in [Actions -> Nat] /\ 0 \in Nat
  OBVIOUS
<1> HIDE DEF none
<1>4. QED
  BY <1>1, <1>2, <1>3 DEF LeaseInv

(* A call whose turn it is has the first ticket not given back. *)
LEMMA TurnIs ==
    ASSUME NoActionAssumption, NEW ticket \in [Actions -> Nat], NEW n \in Nat, NEW m \in Nat,
           Ticketed(ticket, n, m), NEW c \in Actions, stage[c] # "idle", Free(ahead[c])
    PROVE  ticket[c] <= m + 1
<1>1. ticket[c] \in Nat /\ ticket[c] # 0
  BY DEF Ticketed
<1>2. CASE ticket[c] = 1
  BY <1>2
<1>3. CASE ticket[c] > 1
 <2>1. ahead[c] \in Actions /\ ticket[ahead[c]] = ticket[c] - 1
   BY <1>3 DEF Ticketed
 <2>2. ahead[c] \in released
   BY <2>1 DEF Free, NoActionAssumption
 <2>3. ticket[ahead[c]] <= m
   BY <2>1, <2>2 DEF Ticketed
 <2>4. QED
   BY <2>1, <2>3, <1>1
<1>4. QED
  BY <1>1, <1>2, <1>3

LEMMA LeaseStep == NoActionAssumption /\ LeaseInv /\ [LeaseNext]_leaseVars => LeaseInv'
<1> SUFFICES ASSUME NoActionAssumption, LeaseInv, [LeaseNext]_leaseVars PROVE LeaseInv'
  OBVIOUS
<1>1. PICK ticket \in [Actions -> Nat], n \in Nat, m \in Nat : Ticketed(ticket, n, m)
  BY DEF LeaseInv
<1>2. LeaseTypeOK /\ working \cap released = {}
  BY DEF LeaseInv
<1>3. ASSUME NEW c \in Actions, Enter(c)
      PROVE  LeaseInv'
 <2> DEFINE later == [ticket EXCEPT ![c] = n + 1]
 <2>1. later \in [Actions -> Nat] /\ n + 1 \in Nat /\ later[c] = n + 1
       /\ \A d \in Actions : d # c => later[d] = ticket[d]
   OBVIOUS
 <2> HIDE DEF later
 <2>2. /\ stage[c] = "idle" /\ stage'[c] = "queued" /\ ahead'[c] = tail /\ tail' = c
       /\ \A d \in Actions : d # c => stage'[d] = stage[d] /\ ahead'[d] = ahead[d]
       /\ UNCHANGED <<working, released, answer>>
   BY <1>2, <1>3 DEF Enter, LeaseTypeOK
 <2>3. LeaseTypeOK'
   BY <1>2, <1>3 DEF Enter, LeaseTypeOK
 <2>4. ticket[c] = 0 /\ c \notin released /\ c \notin working
   BY <1>1, <1>2, <2>2 DEF Ticketed, LeaseTypeOK
 <2>5. \A d \in Actions : ticket[d] \in Nat /\ ticket[d] <= n
   BY <1>1 DEF Ticketed
 <2>6. Ticketed(later, n + 1, m)'
  <3>1. m <= n + 1
    BY <1>1 DEF Ticketed
  <3>2. \A d \in Actions : later[d] <= n + 1 /\ (stage'[d] = "idle" <=> later[d] = 0)
    BY <1>1, <2>1, <2>2, <2>5 DEF Ticketed
  <3>3. \A d, e \in Actions : later[d] = later[e] /\ later[d] # 0 => d = e
   <4> SUFFICES ASSUME NEW d \in Actions, NEW e \in Actions, later[d] = later[e], later[d] # 0,
                       d # e
                PROVE  FALSE
     OBVIOUS
   <4>1. CASE d # c /\ e # c
     BY <4>1, <1>1, <2>1 DEF Ticketed
   <4>2. CASE d = c \/ e = c
     BY <4>2, <2>1, <2>5
   <4>3. QED
     BY <4>1, <4>2
  <3>4. \A d \in Actions : later[d] = 1 => ahead'[d] = NoAction
   <4> SUFFICES ASSUME NEW d \in Actions, later[d] = 1 PROVE ahead'[d] = NoAction
     OBVIOUS
   <4>1. CASE d = c
     BY <4>1, <1>1, <2>1, <2>2 DEF Ticketed
   <4>2. CASE d # c
     BY <4>2, <1>1, <2>1, <2>2 DEF Ticketed
   <4>3. QED
     BY <4>1, <4>2
  <3>5. \A d \in Actions : later[d] > 1 =>
          ahead'[d] \in Actions /\ later[ahead'[d]] = later[d] - 1
   <4> SUFFICES ASSUME NEW d \in Actions, later[d] > 1
                PROVE  ahead'[d] \in Actions /\ later[ahead'[d]] = later[d] - 1
     OBVIOUS
   <4>1. CASE d = c
    <5>1. n # 0 /\ tail \in Actions /\ ticket[tail] = n
      BY <4>1, <1>1, <2>1 DEF Ticketed
    <5>2. tail # c
      BY <5>1, <2>4
    <5>3. QED
      BY <4>1, <5>1, <5>2, <2>1, <2>2
   <4>2. CASE d # c
    <5>1. ahead[d] \in Actions /\ ticket[ahead[d]] = ticket[d] - 1 /\ ticket[d] > 1
      BY <4>2, <1>1, <2>1 DEF Ticketed
    <5>2. ahead[d] # c
      BY <5>1, <2>4, <2>5
    <5>3. QED
      BY <4>2, <5>1, <5>2, <2>1, <2>2
   <4>3. QED
     BY <4>1, <4>2
  <3>6. n + 1 # 0 /\ tail' \in Actions /\ later[tail'] = n + 1
    BY <2>1, <2>2
  <3>7. \A d \in Actions : d \in released' <=> later[d] \in 1 .. m
   <4> TAKE d \in Actions
   <4>1. d \in released <=> ticket[d] \in 1 .. m
     BY <1>1 DEF Ticketed
   <4>2. CASE d = c
     BY <4>2, <1>1, <2>1, <2>2, <2>4 DEF Ticketed
   <4>3. CASE d # c
     BY <4>1, <4>3, <2>1, <2>2
   <4>4. QED
     BY <4>2, <4>3
  <3>8. \A d \in Actions : stage'[d] \in {"running", "ended"} => later[d] <= m + 1
    BY <1>1, <2>1, <2>2 DEF Ticketed
  <3>9. QED
    BY <3>1, <3>2, <3>3, <3>4, <3>5, <3>6, <3>7, <3>8 DEF Ticketed
 <2>7. QED
   BY <1>2, <2>1, <2>2, <2>3, <2>6 DEF LeaseInv
<1>4. ASSUME NEW c \in Actions, Acquire(c)
      PROVE  LeaseInv'
 <2>1. /\ stage[c] = "queued" /\ stage'[c] = "running" /\ working' = working \cup {c}
       /\ \A d \in Actions : d # c => stage'[d] = stage[d]
       /\ UNCHANGED <<ahead, tail, released, answer>>
   BY <1>2, <1>4 DEF Acquire, LeaseTypeOK
 <2>2. c \notin released
   BY <1>2, <2>1 DEF LeaseTypeOK
 <2>3. LeaseTypeOK' /\ working' \cap released' = {}
   BY <1>2, <1>4, <2>1, <2>2 DEF Acquire, LeaseTypeOK
 <2>4. ticket[c] <= m + 1
   BY <1>1, <1>4, <2>1, TurnIs DEF Acquire
 <2>5. Ticketed(ticket, n, m)'
   BY <1>1, <2>1, <2>4 DEF Ticketed
 <2>6. QED
   BY <2>3, <2>5 DEF LeaseInv
<1>5. ASSUME NEW c \in Actions, GivesUp(c)
      PROVE  LeaseInv'
 <2>1. /\ stage[c] = "queued" /\ stage'[c] = "left"
       /\ \A d \in Actions : d # c => stage'[d] = stage[d]
       /\ UNCHANGED <<working, ahead, tail, released>>
   BY <1>2, <1>5 DEF GivesUp, LeaseTypeOK
 <2>2. LeaseTypeOK'
   BY <1>2, <1>5, <2>1 DEF GivesUp, LeaseTypeOK
 <2>3. Ticketed(ticket, n, m)'
   BY <1>1, <2>1 DEF Ticketed
 <2>4. QED
   BY <1>2, <2>1, <2>2, <2>3 DEF LeaseInv
<1>6. ASSUME NEW c \in Actions, OperationEnds(c) \/ Overruns(c)
      PROVE  LeaseInv'
 <2>1. /\ c \in working /\ stage[c] \in {"running", "ended"} /\ stage'[c] = "ended"
       /\ \A d \in Actions : d # c => stage'[d] = stage[d]
       /\ working' \in {working, working \ {c}}
       /\ UNCHANGED <<ahead, tail, released>>
   BY <1>2, <1>6 DEF OperationEnds, Overruns, LeaseTypeOK
 <2>2. LeaseTypeOK'
   BY <1>2, <1>6, <2>1 DEF OperationEnds, Overruns, LeaseTypeOK
 <2>3. Ticketed(ticket, n, m)'
   BY <1>1, <2>1 DEF Ticketed
 <2>4. QED
   BY <1>2, <2>1, <2>2, <2>3 DEF LeaseInv
<1>7. ASSUME NEW c \in Actions, Release(c)
      PROVE  LeaseInv'
 <2>1. /\ Returnable(c) /\ c \notin released /\ released' = released \cup {c}
       /\ c \notin working /\ stage[c] \in {"left", "ended"}
       /\ UNCHANGED <<stage, working, ahead, tail, answer>>
   BY <1>2, <1>7 DEF Release, Returnable, LeaseTypeOK
 <2>2. LeaseTypeOK' /\ working' \cap released' = {}
   BY <1>2, <2>1 DEF LeaseTypeOK
 <2>3. ticket[c] = m + 1
  <3>1. ticket[c] \in Nat /\ ticket[c] # 0 /\ ~(ticket[c] \in 1 .. m)
    BY <1>1, <2>1 DEF Ticketed
  <3>2. ticket[c] <= m + 1
   <4>1. CASE stage[c] = "ended"
     BY <4>1, <1>1 DEF Ticketed
   <4>2. CASE stage[c] = "left" /\ Free(ahead[c])
     BY <4>2, <1>1, TurnIs
   <4>3. QED
     BY <4>1, <4>2, <2>1 DEF Returnable
  <3>3. QED
    BY <3>1, <3>2
 <2>4. m + 1 \in Nat /\ m + 1 <= n
   BY <1>1, <2>3 DEF Ticketed
 <2>5. \A d \in Actions : d \in released' <=> ticket[d] \in 1 .. (m + 1)
  <3> TAKE d \in Actions
  <3>1. d \in released <=> ticket[d] \in 1 .. m
    BY <1>1 DEF Ticketed
  <3>2. ticket[d] \in Nat /\ (ticket[d] = m + 1 => d = c)
    BY <1>1, <2>3 DEF Ticketed
  <3>3. QED
    BY <3>1, <3>2, <2>1, <2>3
 <2>6. \A d \in Actions : stage'[d] \in {"running", "ended"} => ticket[d] <= (m + 1) + 1
  <3> TAKE d \in Actions
  <3>1. ticket[d] \in Nat /\ (stage[d] \in {"running", "ended"} => ticket[d] <= m + 1)
    BY <1>1 DEF Ticketed
  <3>2. QED
    BY <3>1, <2>1
 <2>7. Ticketed(ticket, n, m + 1)'
   BY <1>1, <2>1, <2>4, <2>5, <2>6 DEF Ticketed
 <2>8. QED
   BY <2>2, <2>4, <2>7 DEF LeaseInv
<1>8. ASSUME UNCHANGED leaseVars
      PROVE  LeaseInv'
  BY <1>8 DEF leaseVars, LeaseInv, LeaseTypeOK, Ticketed
<1>9. QED
  BY <1>3, <1>4, <1>5, <1>6, <1>7, <1>8 DEF LeaseNext

LEMMA LeaseMeans ==
    ASSUME LeaseInv
    PROVE  LeaseTypeOK /\ OneAtATime
<1>1. PICK ticket \in [Actions -> Nat], n \in Nat, m \in Nat : Ticketed(ticket, n, m)
  BY DEF LeaseInv
<1>2. \A c \in working : c \in Actions /\ ticket[c] = m + 1
  BY <1>1 DEF LeaseInv, LeaseTypeOK, Ticketed
<1>3. \A c, d \in working : c = d
  BY <1>1, <1>2 DEF Ticketed
<1>4. CASE working = {}
  BY <1>4, FS_EmptySet DEF OneAtATime, LeaseInv
<1>5. CASE working # {}
 <2>1. PICK c \in working : TRUE
   BY <1>5
 <2>2. working = {c}
   BY <2>1, <1>3
 <2>3. Cardinality(working) = 1
   BY <2>2, FS_Singleton
 <2>4. QED
   BY <2>3 DEF OneAtATime, LeaseInv
<1>6. QED
  BY <1>4, <1>5

LEMMA LeaseInvariant == NoActionAssumption => (LeaseSpec => []LeaseInv)
<1> SUFFICES ASSUME NoActionAssumption
             PROVE  LeaseSpec => []LeaseInv
  OBVIOUS
<1>1. LeaseInit => LeaseInv
  BY LeaseStarts
<1>2. LeaseInv /\ [LeaseNext]_leaseVars => LeaseInv'
  BY LeaseStep
<1>3. QED
  BY <1>1, <1>2, PTL DEF LeaseSpec

-----------------------------------------------------------------------------
(* OAuthSignIn. *)

(* However sites, people and the operations between calls interleave with a  *)
(* sign-in, its denial is reported, its success rests on its own callback, a *)
(* screen is clicked once, no call ends on a closed tab or leaves one        *)
(* behind, and one operation drives the browser at a time                    *)
(* (bot/browser.ts, bot/operate-session.ts).                                 *)
THEOREM SignInIsSafe ==
    LoginConstants /\ NoActionAssumption => (SignInSpec => []SignInSafe)
<1> SUFFICES ASSUME LoginConstants, NoActionAssumption
             PROVE  SignInSpec => []SignInSafe
  OBVIOUS
<1>1. LoginSpec => []LoginInv
  BY LoginInvariant
<1>2. LeaseSpec => []LeaseInv
  BY LeaseInvariant
<1>3. LoginInv /\ LeaseInv => SignInSafe
  BY LoginMeans, LeaseMeans DEF SignInSafe
<1>4. QED
  BY <1>1, <1>2, <1>3, PTL DEF SignInSpec
=============================================================================
