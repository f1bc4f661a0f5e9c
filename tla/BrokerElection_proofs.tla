------------------------- MODULE BrokerElection_proofs -------------------------
(***************************************************************************)
(* Theorems about BrokerElection for every number of processes, starts and *)
(* faults: whoever listens for clients was elected, and a process that     *)
(* ended in its own time leaves no Chrome but one it launched too late.    *)
(*                                                                         *)
(* And about BrokerForward, the client of whoever was elected, for every   *)
(* set of calls and number of connections: no call is done twice, and a    *)
(* process has one connection, on which it reaches the sessions its        *)
(* callers were told of.                                                   *)
(*                                                                         *)
(* And about OperateDrive, the longest of its calls, for every site and    *)
(* limit: a drive is charged for every act, asks its model within bounds,  *)
(* acts on the page it decided on, and counts a control as dead only after *)
(* it was tried there.                                                     *)
(***************************************************************************)
EXTENDS BrokerElection, BrokerForward, OperateDrive, FiniteSetTheorems, TLAPS

(* The last life that was given out. *)
Born == unit.starts + counts.others + 1

(* Where a process that was elected can be. *)
Elected == {"sockets", "socketGrace", "socketForced", "scope", "chrome", "bind", "mcp", "serve",
            "closing", "unlisten", "release", "work"}
Listening == {"mcp", "serve", "closing", "unlisten"}

(* What a slot holds: nothing, or a process at a place of its kind. *)
SlotOK(x, born, well) ==
    /\ x.life = 0 \/ x.kind = "none" \/ x.pc = "dead" => x = Dead
    /\ x.life <= born /\ x.life \notin well
    /\ x.kind = "legacy" => x.pc \in {"serve", "closing", "unlisten", "release"}
    /\ x.kind = "installer" => x.pc \in {"lock", "work"}
    /\ x.listens => x.pc \in Listening

(* A broker elected under the lock holds it until it is done with the       *)
(* profile, the socket path is its own while it listens, its Chrome is gone *)
(* once it closed it, and no other Chrome runs once the service is to bind. *)
ElectedOK(x, held, bound, seen, late) ==
    /\ x.kind # "legacy" /\ x.pc \in Elected => held = x.life
    /\ x.kind # "legacy" /\ x.pc \in Listening => bound = x.life
    /\ x.pc \in {"unlisten", "release"} /\ seen.on /\ seen.by = x.life => x.life \in late
    /\ ~Legacy /\ x.kind = "service" /\ x.pc = "bind" => ~seen.on
    /\ ~Legacy /\ x.kind = "service" /\ x.pc \in Listening /\ seen.on => seen.by = x.life

(* Whoever waits for a process to end asked it to, and it was a broker. *)
WaitOK(x, born, asked) ==
    x.pc \in {"grace", "socketGrace"} =>
        /\ x.target \in Pids /\ x.of # 0 /\ x.of <= born /\ x.of \in asked
        /\ \A q \in Pids : proc[q].life = x.of => proc[q].kind \in Brokers

ProcOK(p) ==
    /\ SlotOK(proc[p], Born, ghost.well)
    /\ ElectedOK(proc[p], lock, path, chrome, ghost.late)
    /\ WaitOK(proc[p], Born, ghost.asked)

Processes == \A p \in Pids : ProcOK(p)

(* No two processes have the same life. *)
Distinct == \A p, q \in Pids : p # q /\ proc[p].life = proc[q].life => proc[p].life = 0

WellEnded ==
    /\ chrome.on => chrome.by \notin ghost.well \ ghost.late
    /\ \A l \in ghost.well : l <= Born
    /\ ghost.hit \subseteq Brokers /\ ghost.forced \subseteq ghost.asked
    /\ ~Legacy => \A p \in Pids : proc[p].kind # "legacy"

IInv == TypeOK /\ Processes /\ Distinct /\ WellEnded

-----------------------------------------------------------------------------
(* Types, and what the steps make of a slot. *)

ProcStates == [kind : Brokers \cup {"installer", "none"}, life : Lives \cup {0}, pc : PCs,
               target : Pids \cup {0}, of : Lives \cup {0}, listens : BOOLEAN]
GhostStates == [asked : SUBSET Lives, forced : SUBSET Lives, well : SUBSET Lives,
                late : SUBSET Lives, hit : SUBSET (Brokers \cup {"installer"})]

Others(p) == \A q \in Pids : q # p => proc'[q] = proc[q]

LEMMA DeadType == Dead \in ProcStates
BY DEF Dead, ProcStates, PCs

LEMMA BornType ==
    ASSUME ElectionConstants, TypeOK
    PROVE  Born \in Nat /\ Lives \subseteq Nat \ {0} /\ Born \in Lives
BY DEF ElectionConstants, TypeOK, Born, Lives

LEMMA PcAfter ==
    ASSUME TypeOK, NEW p \in Pids, NEW where \in PCs, proc' = [proc EXCEPT ![p].pc = where]
    PROVE  /\ proc' \in [Pids -> ProcStates] /\ Others(p) /\ proc'[p].pc = where
           /\ proc'[p].kind = proc[p].kind /\ proc'[p].life = proc[p].life
           /\ proc'[p].target = proc[p].target /\ proc'[p].of = proc[p].of
           /\ proc'[p].listens = proc[p].listens
BY DEF TypeOK, ProcStates, Others

LEMMA ListenAfter ==
    ASSUME TypeOK, NEW p \in Pids, NEW where \in PCs, NEW on \in BOOLEAN,
           proc' = [proc EXCEPT ![p].pc = where, ![p].listens = on]
    PROVE  /\ proc' \in [Pids -> ProcStates] /\ Others(p) /\ proc'[p].pc = where
           /\ proc'[p].kind = proc[p].kind /\ proc'[p].life = proc[p].life
           /\ proc'[p].listens = on
<1> DEFINE x == [proc[p] EXCEPT !.pc = where, !.listens = on]
<1>1. proc \in [Pids -> ProcStates] /\ proc[p] \in ProcStates
  BY DEF TypeOK, ProcStates
<1>2. proc' = [proc EXCEPT ![p] = x]
  BY <1>1
<1>3. /\ x \in ProcStates /\ x.pc = where /\ x.kind = proc[p].kind /\ x.life = proc[p].life
      /\ x.listens = on
  BY <1>1 DEF ProcStates
<1> HIDE DEF x
<1>4. proc' \in [Pids -> ProcStates] /\ proc'[p] = x
  BY <1>1, <1>2, <1>3
<1>5. Others(p)
  BY <1>1, <1>2 DEF Others
<1>6. QED
  BY <1>3, <1>4, <1>5

LEMMA AskedAfter ==
    ASSUME ghost \in GhostStates, NEW life \in Lives, NEW tier \in Brokers,
           ghost' = [ghost EXCEPT !.asked = @ \cup {life}, !.hit = @ \cup {tier}]
    PROVE  /\ ghost' \in GhostStates /\ ghost'.well = ghost.well /\ ghost'.late = ghost.late
           /\ ghost'.forced = ghost.forced
           /\ ghost'.asked = ghost.asked \cup {life} /\ ghost'.hit = ghost.hit \cup {tier}
BY DEF GhostStates

LEMMA ForcedAfter ==
    ASSUME ghost \in GhostStates, NEW life \in Lives, NEW tier \in Brokers,
           ghost' = [ghost EXCEPT !.forced = @ \cup {life}, !.hit = @ \cup {tier}]
    PROVE  /\ ghost' \in GhostStates /\ ghost'.well = ghost.well /\ ghost'.late = ghost.late
           /\ ghost'.asked = ghost.asked
           /\ ghost'.forced = ghost.forced \cup {life} /\ ghost'.hit = ghost.hit \cup {tier}
BY DEF GhostStates

LEMMA DeathAfter ==
    ASSUME TypeOK, NEW p \in Pids, proc' = [proc EXCEPT ![p] = Dead]
    PROVE  proc' \in [Pids -> ProcStates] /\ Others(p) /\ proc'[p] = Dead
BY DeadType DEF TypeOK, ProcStates, Others

(* A slot holds the process it held, or none. *)
Descends(q) ==
    proc'[q] = Dead \/ (proc'[q].life = proc[q].life /\ proc'[q].kind = proc[q].kind)

LEMMA DeadOK ==
    ASSUME ElectionConstants, NEW p \in Pids, TypeOK', proc'[p] = Dead
    PROVE  ProcOK(p)'
<1>1. Born' \in Nat /\ 0 \notin ghost'.well
  BY BornType DEF TypeOK, ElectionConstants, Born, Lives
<1>2. /\ Dead.life = 0 /\ Dead.kind = "none" /\ Dead.pc = "dead" /\ Dead.listens = FALSE
  BY DEF Dead
<1>3. SlotOK(Dead, Born', ghost'.well)
  BY <1>1, <1>2 DEF SlotOK
<1>4. ElectedOK(Dead, lock', path', chrome', ghost'.late)
  BY <1>2 DEF ElectedOK, Elected, Listening
<1>5. WaitOK(proc[p], Born, ghost.asked)'
  BY <1>2 DEF WaitOK
<1>6. QED
  BY <1>3, <1>4, <1>5 DEF ProcOK

(* What the others do leaves a process as sound as it was: they keep its    *)
(* lock and its path, and launch no Chrome while it has the profile.        *)
ChromeQuiet == chrome'.on => chrome.on /\ chrome'.by = chrome.by
Spared(x) ==
    /\ lock = proc[x].life /\ proc[x].life # 0 => lock' = lock
    /\ proc[x].kind # "legacy" /\ proc[x].pc \in Listening => path' = path
    /\ \/ ChromeQuiet
       \/ /\ chrome'.by # proc[x].life
          /\ Legacy \/ proc[x].kind # "service" \/ proc[x].pc \notin {"bind"} \cup Listening
    /\ proc[x].life \notin ghost'.well

LEMMA Unmoved ==
    ASSUME IInv, NEW x \in Pids, proc'[x] = proc[x], Spared(x),
           Born \in Nat, Born' \in Nat, Born <= Born', ghost.asked \subseteq ghost'.asked,
           ghost.late \subseteq ghost'.late,
           \A q \in Pids : Descends(q) \/ proc'[q].life > Born,
           proc[x].life \in Nat, proc[x].of \in Nat
    PROVE  ProcOK(x)'
<1>1. ProcOK(x)
  BY DEF IInv, Processes
<1>2. SlotOK(proc[x], Born', ghost'.well)
  BY <1>1 DEF ProcOK, SlotOK, Spared
<1>3. proc[x].pc \in Elected => proc[x].life # 0
  BY <1>1 DEF ProcOK, SlotOK, Elected, Dead
<1>4. ElectedOK(proc[x], lock', path', chrome', ghost'.late)
  BY <1>1, <1>3 DEF ProcOK, ElectedOK, Spared, ChromeQuiet
<1>5. ASSUME proc[x].pc \in {"grace", "socketGrace"}
      PROVE  \A q \in Pids : proc'[q].life = proc[x].of => proc'[q].kind \in Brokers
 <2>1. /\ proc[x].of # 0 /\ proc[x].of <= Born
       /\ \A q \in Pids : proc[q].life = proc[x].of => proc[q].kind \in Brokers
   BY <1>1, <1>5 DEF ProcOK, WaitOK
 <2>2. Dead.life = 0
   BY DEF Dead
 <2>3. QED
   BY <2>1, <2>2 DEF Descends
<1>6. WaitOK(proc[x], Born, ghost.asked)'
  BY <1>1, <1>5 DEF ProcOK, WaitOK
<1>7. QED
  BY <1>2, <1>4, <1>6 DEF ProcOK

LEMMA DistinctKept ==
    ASSUME Distinct, \A q \in Pids : Descends(q)
    PROVE  Distinct'
<1>1. Dead.life = 0
  BY DEF Dead
<1>2. QED
  BY <1>1 DEF Distinct, Descends

(* The step of one process. *)
LEMMA OwnStep ==
    ASSUME ElectionConstants, IInv, NEW p \in Pids, Others(p), Descends(p), TypeOK', Born' = Born,
           ghost.asked \subseteq ghost'.asked, ghost.late \subseteq ghost'.late,
           \/ ghost'.well = ghost.well
           \/ proc'[p] = Dead /\ proc[p].life # 0 /\ ghost'.well = ghost.well \cup {proc[p].life},
           ghost'.hit = ghost.hit, ghost'.forced = ghost.forced,
           \/ lock' = lock
           \/ lock = 0 \/ lock = proc[p].life,
           \A x \in Pids \ {p} :
               proc[x].kind # "legacy" /\ proc[x].pc \in Listening => path' = path,
           \/ ChromeQuiet
           \/ chrome'.by = proc[p].life /\ proc[p].life # 0 /\ (Legacy \/ lock = proc[p].life),
           chrome'.on => chrome'.by \notin ghost'.well \ ghost'.late,
           ProcOK(p)'
    PROVE  IInv'
<1>1. TypeOK /\ Born \in Nat /\ Born' \in Nat
  BY BornType DEF IInv
<1>2. \A q \in Pids : Descends(q)
  BY DEF Others, Descends
<1>3. \A x \in Pids : /\ proc[x].life \in Nat /\ proc[x].of \in Nat
                      /\ proc[x].life \notin ghost.well
  BY <1>1 DEF TypeOK, Lives, IInv, Processes, ProcOK, SlotOK
<1>4. ASSUME NEW x \in Pids, x # p
      PROVE  ProcOK(x)'
 <2>1. proc[x].life = proc[p].life => proc[x].life = 0
   BY <1>4 DEF IInv, Distinct
 <2>2. proc[x].life \notin ghost'.well
   BY <1>3, <2>1
 <2>3. lock = proc[x].life /\ proc[x].life # 0 => lock' = lock
   BY <2>1
 <2>4. ASSUME ~ChromeQuiet
       PROVE  /\ chrome'.by # proc[x].life
              /\ Legacy \/ proc[x].kind # "service" \/ proc[x].pc \notin {"bind"} \cup Listening
  <3>1. /\ chrome'.by = proc[p].life /\ proc[p].life # 0
        /\ Legacy \/ lock = proc[p].life
    BY <2>4
  <3>2. ElectedOK(proc[x], lock, path, chrome, ghost.late)
    BY DEF IInv, Processes, ProcOK
  <3>3. proc[x].kind = "service" /\ proc[x].pc \in {"bind"} \cup Listening
            => lock = proc[x].life
    BY <3>2 DEF ElectedOK, Elected, Listening
  <3>4. QED
    BY <2>1, <3>1, <3>3
 <2>5. Spared(x)
   BY <1>4, <2>2, <2>3, <2>4 DEF Spared
 <2>6. proc'[x] = proc[x]
   BY <1>4 DEF Others
 <2>7. QED
   BY <1>1, <1>2, <1>3, <2>5, <2>6, Unmoved
<1>5. Processes'
  BY <1>4 DEF Processes
<1>6. Distinct'
  BY <1>2, DistinctKept DEF IInv
<1>7. WellEnded'
 <2>1. \A l \in ghost'.well : l <= Born'
   BY <1>1 DEF IInv, WellEnded, Processes, ProcOK, SlotOK
 <2>2. ~Legacy => \A q \in Pids : proc'[q].kind # "legacy"
   BY <1>2 DEF IInv, WellEnded, Descends, Dead
 <2>3. ghost'.hit \subseteq Brokers /\ ghost'.forced \subseteq ghost'.asked
   BY DEF IInv, WellEnded
 <2>4. QED
   BY <2>1, <2>2, <2>3 DEF WellEnded
<1>8. QED
  BY <1>5, <1>6, <1>7 DEF IInv

-----------------------------------------------------------------------------
(* The common forms of a step. *)

LEMMA Alive ==
    ASSUME IInv, NEW p \in Pids, proc[p].pc # "dead"
    PROVE  proc[p].life # 0 /\ proc[p].kind # "none" /\ proc[p].life \notin ghost.well
BY DEF IInv, Processes, ProcOK, SlotOK, Dead

LEMMA CountsAfter ==
    ASSUME ElectionConstants, TypeOK, Fault \/ UNCHANGED counts
    PROVE  /\ counts' \in [others : 0..MaxOthers, faults : 0..MaxFaults]
           /\ counts'.others = counts.others
<1>1. counts \in [others : 0..MaxOthers, faults : 0..MaxFaults]
  BY DEF TypeOK
<1>2. CASE UNCHANGED counts
  BY <1>1, <1>2
<1>3. CASE Fault
 <2>1. counts' = [counts EXCEPT !.faults = counts.faults + 1] /\ counts.faults < MaxFaults
   BY <1>3 DEF Fault
 <2>2. counts.faults + 1 \in 0..MaxFaults
   BY <1>1, <2>1 DEF ElectionConstants
 <2>3. QED
   BY <1>1, <2>1, <2>2
<1>4. QED
  BY <1>2, <1>3

LEMMA UnitAfter ==
    ASSUME TypeOK, NEW p \in Pids, NEW clean \in BOOLEAN, unit' = UnitWithout(p, clean)
    PROVE  /\ unit' \in [state : {"up", "failed", "stopped"}, starts : 0..StartLimit]
           /\ unit'.starts = unit.starts
BY DEF TypeOK, UnitWithout

LEMMA ChromeAfter ==
    ASSUME TypeOK, NEW p \in Pids, chrome' \in ChromesWithout(p)
    PROVE  /\ ChromeQuiet /\ chrome'.by = chrome.by
           /\ chrome' \in [by : Lives \cup {0}, on : BOOLEAN]
BY DEF TypeOK, ChromesWithout, ChromeQuiet


(* A process dies. *)
LEMMA DeathStep ==
    ASSUME ElectionConstants, IInv, NEW p \in Pids, NEW clean \in BOOLEAN, Dies(p, clean),
           UNCHANGED ghost, Fault \/ UNCHANGED counts
    PROVE  IInv'
<1>1. TypeOK /\ proc' = [proc EXCEPT ![p] = Dead]
  BY DEF IInv, Dies
<1>2. proc' \in [Pids -> ProcStates] /\ Others(p) /\ proc'[p] = Dead
  BY <1>1, DeathAfter
<1>3. ChromeQuiet /\ chrome' \in [by : Lives \cup {0}, on : BOOLEAN]
  BY <1>1, ChromeAfter DEF Dies
<1>4. /\ unit' \in [state : {"up", "failed", "stopped"}, starts : 0..StartLimit]
      /\ unit'.starts = unit.starts
  BY <1>1, UnitAfter DEF Dies
<1>5. /\ counts' \in [others : 0..MaxOthers, faults : 0..MaxFaults]
      /\ counts'.others = counts.others
  BY <1>1, CountsAfter
<1>6. /\ lock' \in {lock, 0} /\ path' = path
      /\ lock' # 0 => lock # proc[p].life
      /\ lock' = lock \/ lock = proc[p].life
  BY DEF Dies, LockWithout, Holds
<1>7. TypeOK'
 <2>1. lock' # 0 => \E q \in Pids : proc'[q].life = lock'
   BY <1>1, <1>2, <1>6 DEF TypeOK, Others
 <2>2. {lock', path'} \subseteq Lives \cup {0}
   BY <1>1, <1>3, <1>6 DEF TypeOK
 <2>3. ghost' \in GhostStates
   BY <1>1 DEF TypeOK, GhostStates
 <2>4. QED
   BY <1>2, <1>3, <1>4, <1>5, <2>1, <2>2, <2>3 DEF TypeOK, ProcStates, GhostStates
<1>8. Born' = Born /\ Descends(p)
  BY <1>2, <1>4, <1>5 DEF Born, Descends
<1>9. ProcOK(p)'
  BY <1>2, <1>7, DeadOK
<1>10. chrome'.on => chrome'.by \notin ghost'.well \ ghost'.late
  BY <1>3 DEF IInv, WellEnded, ChromeQuiet
<1>11. QED
  BY <1>2, <1>3, <1>6, <1>7, <1>8, <1>9, <1>10, OwnStep

(* A process goes on, and changes nothing else. *)
LEMMA GotoStep ==
    ASSUME ElectionConstants, IInv, NEW p \in Pids, NEW where \in PCs, Goto(p, where),
           Fault \/ UNCHANGED counts, proc[p].pc # "dead",
           where \notin {"dead", "grace", "socketGrace", "bind", "unlisten", "release"},
           proc[p].kind = "legacy" => where \in {"serve", "closing", "unlisten", "release"},
           proc[p].kind # "installer",
           where \in Elected => proc[p].pc \in Elected,
           where \in Listening <=> proc[p].pc \in Listening
    PROVE  IInv'
<1>1. TypeOK /\ proc' = [proc EXCEPT ![p].pc = where]
  BY DEF IInv, Goto
<1>2. /\ proc' \in [Pids -> ProcStates] /\ Others(p) /\ proc'[p].pc = where
      /\ proc'[p].kind = proc[p].kind /\ proc'[p].life = proc[p].life
      /\ proc'[p].listens = proc[p].listens
  BY <1>1, PcAfter
<1>3. UNCHANGED <<lock, path, chrome, unit, ghost>>
  BY DEF Goto
<1>4. /\ counts' \in [others : 0..MaxOthers, faults : 0..MaxFaults]
      /\ counts'.others = counts.others
  BY <1>1, CountsAfter
<1>5. TypeOK'
 <2>1. lock # 0 => \E q \in Pids : proc'[q].life = lock
   BY <1>1, <1>2 DEF TypeOK, Others
 <2>2. QED
   BY <1>1, <1>2, <1>3, <1>4, <2>1 DEF TypeOK, ProcStates
<1>6. Born' = Born /\ Descends(p)
  BY <1>2, <1>3, <1>4 DEF Born, Descends
<1>7. proc[p].life # 0 /\ proc[p].kind # "none"
  BY Alive
<1>8. ProcOK(p)
  BY DEF IInv, Processes
<1>9. SlotOK(proc'[p], Born', ghost'.well)
  BY <1>2, <1>3, <1>6, <1>7, <1>8 DEF ProcOK, SlotOK
<1>10. ElectedOK(proc'[p], lock', path', chrome', ghost'.late)
  BY <1>2, <1>3, <1>8 DEF ProcOK, ElectedOK
<1>11. ProcOK(p)'
  BY <1>2, <1>9, <1>10 DEF ProcOK, WaitOK
<1>12. chrome'.on => chrome'.by \notin ghost'.well \ ghost'.late
  BY <1>3 DEF IInv, WellEnded
<1>13. QED
  BY <1>2, <1>3, <1>5, <1>6, <1>11, <1>12, OwnStep DEF ChromeQuiet

LEMMA Place ==
    ASSUME IInv, NEW p \in Pids
    PROVE  /\ proc[p].kind = "legacy" => proc[p].pc \in {"serve", "closing", "unlisten", "release"}
           /\ proc[p].kind = "installer" => proc[p].pc \in {"lock", "work"}
           /\ proc[p].kind # "legacy" /\ proc[p].pc \in Elected => lock = proc[p].life
BY DEF IInv, Processes, ProcOK, SlotOK, ElectedOK

LEMMA ThrowStep ==
    ASSUME ElectionConstants, IInv, NEW p \in Pids, Throws(p), Fault \/ UNCHANGED counts
    PROVE  IInv'
BY DeathStep DEF Throws

-----------------------------------------------------------------------------
(* Every step keeps the invariant. *)

LEMMA MarkerStep ==
    ASSUME ElectionConstants, IInv, NEW p \in Pids, Marker(p)
    PROVE  IInv'
<1>1. proc[p].pc = "marker" /\ UNCHANGED counts /\ (Throws(p) \/ Goto(p, "lock"))
  BY DEF Marker
<1>2. CASE Goto(p, "lock")
  BY <1>1, <1>2, Place, GotoStep DEF PCs, Elected, Listening
<1>3. QED
  BY <1>1, <1>2, ThrowStep

LEMMA AcquireStep ==
    ASSUME ElectionConstants, IInv, NEW p \in Pids, Acquire(p)
    PROVE  IInv'
<1>1. proc[p].pc \in {"lock", "relock"} /\ UNCHANGED counts
  BY DEF Acquire
<1>2. CASE Goto(p, "identify") /\ proc[p].kind = "service"
  BY <1>1, <1>2, Place, GotoStep DEF PCs, Elected, Listening
<1>3. CASE /\ lock = 0 /\ lock' = proc[p].life
           /\ \E where \in {"work", "sockets", "scope"} :
                  /\ proc' = [proc EXCEPT ![p].pc = where]
                  /\ proc[p].kind = "installer" <=> where = "work"
           /\ UNCHANGED <<path, chrome, unit, ghost>>
 <2>1. PICK where \in {"work", "sockets", "scope"} :
           /\ proc' = [proc EXCEPT ![p].pc = where]
           /\ proc[p].kind = "installer" <=> where = "work"
   BY <1>3
 <2>2. TypeOK /\ where \in PCs
   BY DEF IInv, PCs
 <2>3. /\ proc' \in [Pids -> ProcStates] /\ Others(p) /\ proc'[p].pc = where
       /\ proc'[p].kind = proc[p].kind /\ proc'[p].life = proc[p].life
       /\ proc'[p].listens = proc[p].listens
   BY <2>1, <2>2, PcAfter
 <2>4. /\ proc[p].kind # "legacy" /\ proc[p].life # 0 /\ proc[p].kind # "none"
   BY <1>1, Place, Alive
 <2>5. ProcOK(p) /\ ~proc[p].listens
   BY <1>1 DEF IInv, Processes, ProcOK, SlotOK, Listening, TypeOK
 <2>6. TypeOK'
  <3>1. \E q \in Pids : proc'[q].life = lock'
    BY <1>3, <2>3
  <3>2. lock' \in Lives \cup {0}
    BY <1>3, <2>2 DEF TypeOK
  <3>3. QED
    BY <1>1, <1>3, <2>2, <2>3, <3>1, <3>2 DEF TypeOK, ProcStates
 <2>7. Born' = Born /\ Descends(p)
   BY <1>1, <1>3, <2>3 DEF Born, Descends
 <2>8. SlotOK(proc'[p], Born', ghost'.well)
   BY <1>3, <2>1, <2>3, <2>4, <2>5, <2>7 DEF ProcOK, SlotOK
 <2>9. ElectedOK(proc'[p], lock', path', chrome', ghost'.late)
   BY <1>3, <2>3, <2>4 DEF ElectedOK, Listening
 <2>10. ProcOK(p)'
   BY <2>3, <2>8, <2>9 DEF ProcOK, WaitOK
 <2>11. chrome'.on => chrome'.by \notin ghost'.well \ ghost'.late
   BY <1>3 DEF IInv, WellEnded
 <2>12. QED
   BY <1>3, <2>3, <2>6, <2>7, <2>10, <2>11, OwnStep DEF ChromeQuiet
<1>4. Throws(p) \/ (Goto(p, "identify") /\ proc[p].kind = "service")
      \/ (/\ lock = 0 /\ lock' = proc[p].life
          /\ \E where \in {"work", "sockets", "scope"} :
                  /\ proc' = [proc EXCEPT ![p].pc = where]
                  /\ proc[p].kind = "installer" <=> where = "work"
          /\ UNCHANGED <<path, chrome, unit, ghost>>)
  BY DEF Acquire, Is
<1>5. QED
  BY <1>1, <1>2, <1>3, <1>4, ThrowStep

(* A Chrome launched on the profile, by whom it belongs to. *)
LEMMA LaunchStep ==
    ASSUME ElectionConstants, IInv, NEW p \in Pids,
           proc[p].pc \in {"mcp", "serve", "closing", "unlisten", "release", "work"},
           chrome' = [by |-> proc[p].life, on |-> TRUE],
           ghost' = IF proc[p].pc \in {"unlisten", "release"}
                    THEN [ghost EXCEPT !.late = @ \cup {proc[p].life}] ELSE ghost,
           UNCHANGED <<proc, lock, path, unit, counts>>
    PROVE  IInv'
<1>1. TypeOK
  BY DEF IInv
<1>2. proc[p].life # 0 /\ proc[p].life \notin ghost.well /\ proc[p].life \in Lives
  BY <1>1, Alive DEF TypeOK
<1>3. /\ ghost' \in GhostStates /\ ghost'.well = ghost.well /\ ghost'.hit = ghost.hit
      /\ ghost'.asked = ghost.asked /\ ghost'.forced = ghost.forced
      /\ ghost.late \subseteq ghost'.late
      /\ proc[p].pc \in {"unlisten", "release"} => proc[p].life \in ghost'.late
  BY <1>1, <1>2 DEF TypeOK, GhostStates
<1>4. TypeOK'
  BY <1>1, <1>2, <1>3 DEF TypeOK, GhostStates
<1>5. Legacy \/ lock = proc[p].life
  BY Place DEF IInv, WellEnded, Elected
<1>6. ProcOK(p)
  BY DEF IInv, Processes
<1>7. ProcOK(p)'
 <2>1. SlotOK(proc[p], Born', ghost'.well)
   BY <1>3, <1>6 DEF ProcOK, Born
 <2>2. ElectedOK(proc[p], lock', path', chrome', ghost'.late)
   BY <1>3, <1>6 DEF ProcOK, ElectedOK
 <2>3. WaitOK(proc[p], Born, ghost.asked)'
   BY <1>3, <1>6 DEF ProcOK, WaitOK, Born
 <2>4. QED
   BY <2>1, <2>2, <2>3 DEF ProcOK
<1>8. QED
  BY <1>2, <1>3, <1>4, <1>5, <1>7, OwnStep DEF Others, Descends, Born

LEMMA WorkStep ==
    ASSUME ElectionConstants, IInv, NEW p \in Pids, Work(p)
    PROVE  IInv'
<1>1. CASE /\ chrome' = [by |-> proc[p].life, on |-> TRUE]
           /\ UNCHANGED <<proc, lock, unit, ghost>>
  BY <1>1, LaunchStep DEF Work
<1>2. CASE /\ chrome' = [chrome EXCEPT !.on = FALSE]
           /\ proc' = [proc EXCEPT ![p] = Dead] /\ lock' = 0
           /\ ghost' = [ghost EXCEPT !.well = @ \cup {proc[p].life}] /\ UNCHANGED unit
 <2>1. TypeOK /\ UNCHANGED <<path, counts>> /\ proc[p].pc = "work"
   BY DEF IInv, Work
 <2>2. proc' \in [Pids -> ProcStates] /\ Others(p) /\ proc'[p] = Dead
   BY <1>2, <2>1, DeathAfter
 <2>3. proc[p].life # 0 /\ lock = proc[p].life /\ proc[p].life \in Lives
   BY <2>1, Alive, Place DEF Elected, TypeOK
 <2>4. /\ ghost' \in GhostStates /\ ghost'.well = ghost.well \cup {proc[p].life}
       /\ ghost'.asked = ghost.asked /\ ghost'.hit = ghost.hit /\ ghost'.forced = ghost.forced
       /\ ghost'.late = ghost.late
   BY <1>2, <2>1, <2>3 DEF TypeOK, GhostStates
 <2>5. chrome' \in [by : Lives \cup {0}, on : BOOLEAN] /\ ~chrome'.on
   BY <1>2, <2>1 DEF TypeOK
 <2>6. TypeOK'
   BY <1>2, <2>1, <2>2, <2>4, <2>5 DEF TypeOK, ProcStates, GhostStates
 <2>7. Born' = Born /\ Descends(p)
   BY <1>2, <2>1, <2>2 DEF Born, Descends
 <2>8. ProcOK(p)'
   BY <2>2, <2>6, DeadOK
 <2>9. QED
   BY <1>2, <2>1, <2>2, <2>3, <2>4, <2>5, <2>6, <2>7, <2>8, OwnStep DEF ChromeQuiet
<1>3. QED
  BY <1>1, <1>2 DEF Work

LEMMA ReleaseStep ==
    ASSUME ElectionConstants, IInv, NEW p \in Pids, Release(p)
    PROVE  IInv'
<1>1. TypeOK /\ UNCHANGED <<path, counts>> /\ proc[p].pc = "release"
  BY DEF IInv, Release
<1>2. proc' \in [Pids -> ProcStates] /\ Others(p) /\ proc'[p] = Dead
  BY <1>1, DeathAfter DEF Release
<1>3. proc[p].life # 0 /\ proc[p].life \in Lives
  BY <1>1, Alive DEF TypeOK
<1>4. /\ ghost' \in GhostStates /\ ghost'.well = ghost.well \cup {proc[p].life}
      /\ ghost'.asked = ghost.asked /\ ghost'.hit = ghost.hit /\ ghost'.forced = ghost.forced
      /\ ghost'.late = ghost.late
  BY <1>1, <1>3 DEF Release, TypeOK, GhostStates
<1>5. /\ unit' \in [state : {"up", "failed", "stopped"}, starts : 0..StartLimit]
      /\ unit'.starts = unit.starts
  BY <1>1, UnitAfter DEF Release
<1>6. /\ lock' \in {lock, 0} /\ (lock' # 0 => lock # proc[p].life)
      /\ (lock' = lock \/ lock = proc[p].life)
  BY DEF Release, LockWithout, Holds
<1>7. /\ ChromeQuiet /\ chrome'.by = chrome.by
       /\ chrome' \in [by : Lives \cup {0}, on : BOOLEAN]
  BY <1>1, ChromeAfter DEF Release
<1>8. TypeOK'
 <2>1. lock' # 0 => \E q \in Pids : proc'[q].life = lock'
   BY <1>1, <1>2, <1>6 DEF TypeOK, Others
 <2>2. lock' \in Lives \cup {0}
   BY <1>1, <1>6 DEF TypeOK
 <2>3. QED
   BY <1>1, <1>2, <1>4, <1>5, <1>7, <2>1, <2>2 DEF TypeOK, ProcStates, GhostStates
<1>9. Born' = Born /\ Descends(p)
  BY <1>1, <1>2, <1>5 DEF Born, Descends
<1>10. ProcOK(p)'
  BY <1>2, <1>8, DeadOK
<1>11. chrome'.on => chrome'.by \notin ghost'.well \ ghost'.late
  BY <1>1, <1>4, <1>7 DEF IInv, WellEnded, Processes, ProcOK, ElectedOK, ChromeQuiet
<1>12. QED
  BY <1>1, <1>2, <1>3, <1>4, <1>6, <1>8, <1>9, <1>10, <1>11, <1>7, OwnStep

(* A process goes on after what it did to the Chrome. *)
LEMMA ChromeStep ==
    ASSUME ElectionConstants, IInv, NEW p \in Pids, NEW where \in PCs,
           proc' = [proc EXCEPT ![p].pc = where], NEW on \in BOOLEAN, on => chrome.on,
           chrome' = [chrome EXCEPT !.on = on], UNCHANGED <<lock, path, unit, counts, ghost>>,
           proc[p].pc # "dead", where \notin {"dead", "grace", "socketGrace"},
           proc[p].kind = "legacy" => where \in {"serve", "closing", "unlisten", "release"},
           proc[p].kind # "installer",
           where \in Elected => proc[p].pc \in Elected,
           where \in Listening <=> proc[p].pc \in Listening,
           where \in {"unlisten", "release"} => ~(on /\ chrome.by = proc[p].life),
           ~Legacy /\ proc[p].kind = "service" /\ where = "bind" => ~on
    PROVE  IInv'
<1>1. TypeOK
  BY DEF IInv
<1>2. /\ proc' \in [Pids -> ProcStates] /\ Others(p) /\ proc'[p].pc = where
      /\ proc'[p].kind = proc[p].kind /\ proc'[p].life = proc[p].life
      /\ proc'[p].listens = proc[p].listens
  BY <1>1, PcAfter
<1>3. /\ chrome' \in [by : Lives \cup {0}, on : BOOLEAN]
      /\ chrome'.by = chrome.by /\ chrome'.on = on
  BY <1>1 DEF TypeOK
<1>4. TypeOK'
 <2>1. lock # 0 => \E q \in Pids : proc'[q].life = lock
   BY <1>1, <1>2 DEF TypeOK, Others
 <2>2. QED
   BY <1>1, <1>2, <1>3, <2>1 DEF TypeOK, ProcStates
<1>5. Born' = Born /\ Descends(p)
  BY <1>2 DEF Born, Descends
<1>6. proc[p].life # 0 /\ proc[p].kind # "none"
  BY Alive
<1>7. ProcOK(p)
  BY DEF IInv, Processes
<1>8. SlotOK(proc'[p], Born', ghost'.well)
  BY <1>2, <1>5, <1>6, <1>7 DEF ProcOK, SlotOK
<1>9. ElectedOK(proc'[p], lock', path', chrome', ghost'.late)
  BY <1>2, <1>3, <1>7 DEF ProcOK, ElectedOK
<1>10. ProcOK(p)'
  BY <1>2, <1>8, <1>9 DEF ProcOK, WaitOK
<1>11. ChromeQuiet /\ (chrome'.on => chrome'.by \notin ghost'.well \ ghost'.late)
  BY <1>3 DEF IInv, WellEnded, ChromeQuiet
<1>12. QED
  BY <1>2, <1>4, <1>5, <1>10, <1>11, OwnStep

LEMMA StopScopeStep ==
    ASSUME ElectionConstants, IInv, NEW p \in Pids, StopScope(p)
    PROVE  IInv'
<1>1. proc[p].pc = "scope"
  BY DEF StopScope
<1>2. CASE Fault /\ Throws(p)
  BY <1>2, ThrowStep
<1>3. ASSUME NEW where \in {"chrome", "bind"}, proc' = [proc EXCEPT ![p].pc = where],
             where = "bind" => proc[p].kind # "service",
             chrome' = [chrome EXCEPT !.on = chrome.on /\ ~Scoped],
             UNCHANGED <<lock, path, unit, counts, ghost>>
      PROVE  IInv'
 <2>1. (chrome.on /\ ~Scoped) \in BOOLEAN
   OBVIOUS
 <2>2. QED
   BY <1>1, <1>3, <2>1, Place, ChromeStep DEF PCs, Elected, Listening
<1>4. QED
  BY <1>2, <1>3 DEF StopScope, Is

LEMMA OldChromeStep ==
    ASSUME ElectionConstants, IInv, NEW p \in Pids, OldChrome(p)
    PROVE  IInv'
<1>1. proc[p].pc = "chrome"
  BY DEF OldChrome
<1>2. CASE Fault /\ Throws(p)
  BY <1>2, ThrowStep
<1>3. CASE /\ chrome' = [chrome EXCEPT !.on = FALSE] /\ proc' = [proc EXCEPT ![p].pc = "bind"]
           /\ UNCHANGED <<lock, path, unit, counts, ghost>>
  BY <1>1, <1>3, Place, ChromeStep DEF PCs, Elected, Listening
<1>4. QED
  BY <1>2, <1>3 DEF OldChrome

LEMMA ClosesStep ==
    ASSUME ElectionConstants, IInv, NEW p \in Pids, ClosesChrome(p)
    PROVE  IInv'
<1>1. proc[p].pc = "closing"
  BY DEF ClosesChrome
<1>2. CASE Fault /\ Goto(p, "serve")
  BY <1>1, <1>2, Place, GotoStep DEF PCs, Elected, Listening
<1>3. CASE /\ chrome' = [chrome EXCEPT !.on = chrome.on /\ chrome.by # proc[p].life]
           /\ proc' = [proc EXCEPT ![p].pc = "unlisten"]
           /\ UNCHANGED <<lock, path, unit, counts, ghost>>
 <2>1. (chrome.on /\ chrome.by # proc[p].life) \in BOOLEAN
   OBVIOUS
 <2>2. QED
   BY <1>1, <1>3, <2>1, Place, ChromeStep DEF PCs, Elected, Listening
<1>4. QED
  BY <1>2, <1>3 DEF ClosesChrome

(* The path is bound by the one process that holds the lock. *)
LEMMA BindStep ==
    ASSUME ElectionConstants, IInv, NEW p \in Pids, Bind(p)
    PROVE  IInv'
<1>1. /\ TypeOK /\ proc[p].pc = "bind" /\ path' = proc[p].life
      /\ UNCHANGED <<lock, chrome, unit, counts, ghost>>
  BY DEF IInv, Bind
<1>2. /\ proc' \in [Pids -> ProcStates] /\ Others(p) /\ proc'[p].pc = "mcp"
      /\ proc'[p].kind = proc[p].kind /\ proc'[p].life = proc[p].life
  BY <1>1, ListenAfter DEF Bind, PCs
<1>3. TypeOK'
 <2>1. lock # 0 => \E q \in Pids : proc'[q].life = lock
   BY <1>1, <1>2 DEF TypeOK, Others
 <2>2. path' \in Lives \cup {0}
   BY <1>1 DEF TypeOK
 <2>3. QED
   BY <1>1, <1>2, <2>1, <2>2 DEF TypeOK, ProcStates
<1>4. Born' = Born /\ Descends(p)
  BY <1>1, <1>2 DEF Born, Descends
<1>5. /\ proc[p].life # 0 /\ proc[p].kind # "none" /\ lock = proc[p].life
      /\ proc[p].kind \notin {"legacy", "installer"}
  BY <1>1, Alive, Place DEF Elected
<1>6. ProcOK(p)
  BY DEF IInv, Processes
<1>7. SlotOK(proc'[p], Born', ghost'.well)
  BY <1>1, <1>2, <1>4, <1>5, <1>6 DEF ProcOK, SlotOK, Listening
<1>8. ElectedOK(proc'[p], lock', path', chrome', ghost'.late)
  BY <1>1, <1>2, <1>5, <1>6 DEF ProcOK, ElectedOK
<1>9. ProcOK(p)'
  BY <1>2, <1>7, <1>8 DEF ProcOK, WaitOK
<1>10. \A x \in Pids \ {p} : proc[x].kind # "legacy" => proc[x].pc \notin Listening
 <2> SUFFICES ASSUME NEW x \in Pids \ {p}, proc[x].kind # "legacy", proc[x].pc \in Listening
              PROVE  FALSE
   OBVIOUS
 <2>1. lock = proc[x].life
   BY Place DEF Elected, Listening
 <2>2. QED
   BY <1>5, <2>1 DEF IInv, Distinct
<1>11. chrome'.on => chrome'.by \notin ghost'.well \ ghost'.late
  BY <1>1 DEF IInv, WellEnded
<1>12. QED
  BY <1>1, <1>2, <1>3, <1>4, <1>9, <1>10, <1>11, OwnStep DEF ChromeQuiet

LEMMA UnlistenStep ==
    ASSUME ElectionConstants, IInv, NEW p \in Pids, Unlisten(p)
    PROVE  IInv'
<1>1. /\ TypeOK /\ proc[p].pc = "unlisten"
      /\ path' = IF path = proc[p].life THEN 0 ELSE path
      /\ UNCHANGED <<lock, chrome, unit, counts, ghost>>
  BY DEF IInv, Unlisten
<1>2. /\ proc' \in [Pids -> ProcStates] /\ Others(p) /\ proc'[p].pc = "release"
      /\ proc'[p].kind = proc[p].kind /\ proc'[p].life = proc[p].life /\ ~proc'[p].listens
  BY <1>1, ListenAfter DEF Unlisten, PCs
<1>3. TypeOK'
 <2>1. lock # 0 => \E q \in Pids : proc'[q].life = lock
   BY <1>1, <1>2 DEF TypeOK, Others
 <2>2. path' \in Lives \cup {0}
   BY <1>1 DEF TypeOK
 <2>3. QED
   BY <1>1, <1>2, <2>1, <2>2 DEF TypeOK, ProcStates
<1>4. Born' = Born /\ Descends(p)
  BY <1>1, <1>2 DEF Born, Descends
<1>5. proc[p].life # 0 /\ proc[p].kind # "none" /\ proc[p].kind # "installer"
  BY <1>1, Alive, Place
<1>6. ProcOK(p)
  BY DEF IInv, Processes
<1>7. SlotOK(proc'[p], Born', ghost'.well)
  BY <1>1, <1>2, <1>4, <1>5, <1>6 DEF ProcOK, SlotOK
<1>8. ElectedOK(proc'[p], lock', path', chrome', ghost'.late)
  BY <1>1, <1>2, <1>6 DEF ProcOK, ElectedOK, Elected, Listening
<1>9. ProcOK(p)'
  BY <1>2, <1>7, <1>8 DEF ProcOK, WaitOK
<1>10. ASSUME NEW x \in Pids \ {p}, proc[x].kind # "legacy", proc[x].pc \in Listening
       PROVE  path' = path
 <2>1. path = proc[x].life
   BY <1>10 DEF IInv, Processes, ProcOK, ElectedOK
 <2>2. proc[x].life # proc[p].life
   BY <1>5 DEF IInv, Distinct
 <2>3. QED
   BY <1>1, <2>1, <2>2
<1>11. chrome'.on => chrome'.by \notin ghost'.well \ ghost'.late
  BY <1>1 DEF IInv, WellEnded
<1>12. QED
  BY <1>1, <1>2, <1>3, <1>4, <1>9, <1>10, <1>11, OwnStep DEF ChromeQuiet

LEMMA SignalStep ==
    ASSUME ElectionConstants, IInv, NEW p \in Pids, Signal(p)
    PROVE  IInv'
<1>1. TypeOK /\ Fault /\ UNCHANGED ghost /\ proc[p].kind \in Brokers
  BY DEF IInv, Signal, Is
<1>2. CASE ~Handles(p)
  BY <1>1, <1>2, DeathStep DEF Signal
<1>3. CASE proc[p].pc = "serve"
 <2>1. Goto(p, "closing")
   BY <1>1, <1>3 DEF Signal, Handles, Asked, Goto, TypeOK
 <2>2. QED
   BY <1>1, <1>3, <2>1, Place, GotoStep DEF PCs, Elected, Listening
<1>4. CASE Handles(p) /\ proc[p].pc # "serve"
 <2>1. UNCHANGED <<proc, lock, path, chrome, unit>>
   BY <1>1, <1>4 DEF Signal, Asked, TypeOK
 <2>2. /\ counts' \in [others : 0..MaxOthers, faults : 0..MaxFaults]
       /\ counts'.others = counts.others
   BY <1>1, CountsAfter
 <2>3. Born' = Born
   BY <2>1, <2>2 DEF Born
 <2>4. QED
   BY <1>1, <2>1, <2>2, <2>3
      DEF IInv, TypeOK, Processes, ProcOK, WaitOK, Distinct, WellEnded
<1>5. QED
  BY <1>2, <1>3, <1>4 DEF Handles

LEMMA ChromeDiesStep ==
    ASSUME ElectionConstants, IInv, ChromeDies
    PROVE  IInv'
<1>1. /\ TypeOK /\ Fault /\ chrome' = [chrome EXCEPT !.on = FALSE]
      /\ UNCHANGED <<proc, lock, path, unit, ghost>>
  BY DEF IInv, ChromeDies
<1>2. /\ counts' \in [others : 0..MaxOthers, faults : 0..MaxFaults]
      /\ counts'.others = counts.others
  BY <1>1, CountsAfter
<1>3. chrome' \in [by : Lives \cup {0}, on : BOOLEAN] /\ ~chrome'.on
  BY <1>1 DEF TypeOK
<1>4. Born' = Born
  BY <1>1, <1>2 DEF Born
<1>5. \A p \in Pids : ElectedOK(proc[p], lock, path, chrome', ghost.late)
  BY <1>3 DEF IInv, Processes, ProcOK, ElectedOK
<1>6. Processes'
  BY <1>1, <1>4, <1>5 DEF IInv, Processes, ProcOK, WaitOK
<1>7. QED
  BY <1>1, <1>2, <1>3, <1>4, <1>6 DEF IInv, TypeOK, Distinct, WellEnded

(* A process that ends another, or asks it to end: the other dies or begins *)
(* its shutdown, and the two are different processes.                       *)
LEMMA EndsStep ==
    ASSUME ElectionConstants, IInv, NEW p \in Pids, NEW q \in Pids, p # q,
           \A x \in Pids \ {p, q} : proc'[x] = proc[x],
           proc' \in [Pids -> ProcStates],
           proc'[p].life = proc[p].life, proc'[p].kind = proc[p].kind,
           \/ /\ proc'[q] = Dead /\ lock' = LockWithout(q) /\ chrome' \in ChromesWithout(q)
           \/ /\ proc'[q].life = proc[q].life /\ proc'[q].kind = proc[q].kind
              /\ lock' = lock /\ chrome' = chrome /\ ProcOK(q)',
           path' = path, unit' = unit, counts' = counts, ghost' \in GhostStates,
           ghost'.well = ghost.well, ghost'.late = ghost.late, ghost.asked \subseteq ghost'.asked,
           ghost'.hit \subseteq Brokers, ghost'.forced \subseteq ghost'.asked,
           proc[p].life # 0, lock' = lock \/ lock' = 0,
           (\A x \in Pids : Descends(x)) /\ ChromeQuiet /\ Born' = Born => ProcOK(p)'
    PROVE  IInv'
<1>1. TypeOK /\ Born \in Nat /\ Born' = Born
  BY BornType DEF IInv, Born
<1>2. \A x \in Pids : Descends(x)
  BY DEF Descends
<1>3. chrome' \in [by : Lives \cup {0}, on : BOOLEAN] /\ ChromeQuiet
  BY <1>1, ChromeAfter DEF TypeOK, ChromeQuiet
<1>4. \A x \in Pids : proc[x].life \in Nat /\ proc[x].of \in Nat
  BY <1>1 DEF TypeOK, Lives
<1>5. lock' # 0 => lock' = lock /\ (proc'[q] = Dead => lock # proc[q].life)
  BY DEF LockWithout, Holds, Dead
<1>6. TypeOK'
 <2>1. lock' # 0 => \E x \in Pids : proc'[x].life = lock'
  <3> SUFFICES ASSUME lock' # 0
               PROVE  \E x \in Pids : proc'[x].life = lock'
    OBVIOUS
  <3>1. PICK x \in Pids : proc[x].life = lock
    BY <1>1, <1>5 DEF TypeOK
  <3>2. proc'[x].life = lock
    BY <1>5, <3>1
  <3>3. QED
    BY <1>5, <3>2
 <2>2. lock' \in Lives \cup {0}
   BY <1>1 DEF TypeOK
 <2>3. QED
   BY <1>1, <1>3, <2>1, <2>2 DEF TypeOK, ProcStates, GhostStates
<1>7. ASSUME NEW x \in Pids \ {p, q}
      PROVE  ProcOK(x)'
 <2>1. proc[x].life = proc[q].life => proc[x].life = 0
   BY <1>7 DEF IInv, Distinct
 <2>2. lock = proc[x].life /\ proc[x].life # 0 => lock' = lock
   BY <2>1 DEF LockWithout, Holds
 <2>3. proc[x].life \notin ghost.well
   BY <1>7 DEF IInv, Processes, ProcOK, SlotOK
 <2>4. Spared(x)
   BY <1>3, <2>2, <2>3 DEF Spared
 <2>5. QED
   BY <1>1, <1>2, <1>4, <1>7, <2>4, Unmoved
<1>8. ProcOK(q)'
  BY <1>6, DeadOK
<1>9. ProcOK(p)'
  BY <1>1, <1>2, <1>3
<1>10. Processes'
  BY <1>7, <1>8, <1>9 DEF Processes
<1>11. WellEnded'
 <2>1. ~Legacy => \A x \in Pids : proc'[x].kind # "legacy"
   BY <1>2 DEF IInv, WellEnded, Descends, Dead
 <2>2. \A l \in ghost'.well : l <= Born'
   BY <1>1 DEF IInv, WellEnded
 <2>3. chrome'.on => chrome'.by \notin ghost'.well \ ghost'.late
   BY <1>3 DEF IInv, WellEnded, ChromeQuiet
 <2>4. QED
   BY <2>1, <2>2, <2>3 DEF WellEnded
<1>12. QED
  BY <1>2, <1>6, <1>10, <1>11, DistinctKept DEF IInv

(* What the start of a takeover makes of the one that waits. *)
LEMMA TakeOverStep ==
    ASSUME ElectionConstants, IInv, NEW p \in Pids, NEW socket \in BOOLEAN, TakeOver(p, socket)
    PROVE  IInv'
<1>1. TypeOK /\ proc[p].pc = IF socket THEN "sockets" ELSE "identify"
  BY DEF IInv, TakeOver
<1>2. CASE /\ IF socket THEN Goto(p, "scope") ELSE Throws(p)
           /\ Fault \/ UNCHANGED counts
 <2>1. CASE socket
   BY <1>1, <1>2, <2>1, Place, GotoStep DEF PCs, Elected, Listening
 <2>2. CASE ~socket
   BY <1>2, <2>2, ThrowStep
 <2>3. QED
   BY <2>1, <2>2
<1>3. ASSUME NEW q \in Found(p, socket), UNCHANGED counts, ~Identified(q), Throws(p)
      PROVE  IInv'
  BY <1>3, ThrowStep
<1>4. ASSUME NEW q \in Found(p, socket), UNCHANGED counts, Identified(q),
             proc' = [proc EXCEPT ![q] = Asked(q),
                         ![p] = [@ EXCEPT !.target = q, !.of = proc[q].life,
                                          !.pc = IF socket THEN "socketGrace" ELSE "grace"]],
             lock' = IF Handles(q) THEN lock ELSE LockWithout(q),
             chrome' \in IF Handles(q) THEN {chrome} ELSE ChromesWithout(q),
             ghost' = [ghost EXCEPT !.asked = @ \cup {proc[q].life},
                                    !.hit = @ \cup {proc[q].kind}],
             UNCHANGED <<path, unit>>
      PROVE  IInv'
 <2> DEFINE grace == IF socket THEN "socketGrace" ELSE "grace"
            x == [proc[p] EXCEPT !.target = q, !.of = proc[q].life, !.pc = grace]
 <2>1. q \in Pids /\ p # q /\ proc[q].kind \in Brokers
   BY <1>4 DEF Found, Identified, Is
 <2>2. proc[q].pc # "dead"
   BY <2>1 DEF IInv, Processes, ProcOK, SlotOK, Dead, Brokers
 <2>3. proc[q].life # 0 /\ proc[q].life \in Lives /\ proc[q].life <= Born
   BY <1>1, <2>1, <2>2, Alive DEF TypeOK, IInv, Processes, ProcOK, SlotOK
 <2>4. /\ proc \in [Pids -> ProcStates] /\ proc[p] \in ProcStates /\ proc[q] \in ProcStates
   BY <1>1, <2>1 DEF TypeOK, ProcStates
 <2>5. /\ x \in ProcStates /\ x.pc = grace /\ x.kind = proc[p].kind /\ x.life = proc[p].life
       /\ x.target = q /\ x.of = proc[q].life /\ x.listens = proc[p].listens
   BY <2>1, <2>3, <2>4 DEF ProcStates, PCs
 <2>6. Asked(q) \in ProcStates
   BY <2>4, DeadType DEF Asked, ProcStates, PCs
 <2>7. proc' = [[proc EXCEPT ![q] = Asked(q)] EXCEPT ![p] = x]
   BY <1>4, <2>1, <2>4
 <2>8. ~proc[p].listens /\ proc[p].kind \notin {"legacy", "installer", "none"} /\ proc[p].life # 0
   BY <1>1, Place, Alive DEF IInv, Processes, ProcOK, SlotOK, Listening, TypeOK
 <2> HIDE DEF x
 <2>9. /\ proc' \in [Pids -> ProcStates] /\ proc'[p] = x /\ proc'[q] = Asked(q)
       /\ \A y \in Pids \ {p, q} : proc'[y] = proc[y]
   BY <2>1, <2>4, <2>5, <2>6, <2>7
 <2>10. /\ ghost' \in GhostStates /\ ghost'.well = ghost.well /\ ghost'.late = ghost.late
        /\ ghost'.forced = ghost.forced
        /\ ghost'.asked = ghost.asked \cup {proc[q].life}
        /\ ghost'.hit = ghost.hit \cup {proc[q].kind}
  <3>1. ghost \in GhostStates
    BY <1>1 DEF TypeOK, GhostStates
  <3>2. QED
    BY <1>4, <2>1, <2>3, <3>1, AskedAfter
 <2>11. /\ ghost'.hit \subseteq Brokers /\ ghost'.forced \subseteq ghost'.asked
        /\ ghost.asked \subseteq ghost'.asked
   BY <2>1, <2>10 DEF IInv, WellEnded
 <2>12. ASSUME \A y \in Pids : Descends(y), ChromeQuiet, Born' = Born
        PROVE  ProcOK(p)'
  <3>1. ProcOK(p)
    BY DEF IInv, Processes
  <3>2. SlotOK(x, Born', ghost'.well)
    BY <2>5, <2>8, <2>10, <2>12, <3>1 DEF ProcOK, SlotOK
  <3>3. x.pc \in Elected => lock' = proc[p].life
   <4> SUFFICES ASSUME socket
                PROVE  lock' = proc[p].life
     BY <2>5 DEF Elected
   <4>1. lock = proc[p].life
     BY <1>1, <2>8, Place DEF Elected
   <4>2. proc[q].life # lock
     BY <2>1, <2>8, <4>1 DEF IInv, Distinct
   <4>3. QED
     BY <1>4, <4>1, <4>2 DEF LockWithout, Holds
  <3>4. ElectedOK(x, lock', path', chrome', ghost'.late)
    BY <2>5, <3>3 DEF ElectedOK, Listening
  <3>5. \A y \in Pids : proc'[y].life = x.of => proc'[y].kind \in Brokers
   <4> SUFFICES ASSUME NEW y \in Pids, proc'[y].life = x.of
                PROVE  proc'[y].kind \in Brokers
     OBVIOUS
   <4>1. proc'[y].life = proc[y].life /\ proc'[y].kind = proc[y].kind
     BY <2>3, <2>5, <2>12 DEF Descends, Dead
   <4>2. y = q
     BY <2>1, <2>3, <2>5, <4>1 DEF IInv, Distinct
   <4>3. QED
     BY <2>1, <4>1, <4>2
  <3>6. WaitOK(proc[p], Born, ghost.asked)'
    BY <2>1, <2>3, <2>5, <2>9, <2>10, <2>12, <3>5 DEF WaitOK
  <3>7. QED
    BY <2>9, <3>2, <3>4, <3>6 DEF ProcOK
 <2>13. lock' = lock \/ lock' = 0
   BY <1>4 DEF LockWithout
 <2>14. CASE Handles(q)
  <3>1. lock' = lock /\ chrome' = chrome
    BY <1>4, <2>14
  <3>2. /\ proc'[q].life = proc[q].life /\ proc'[q].kind = proc[q].kind
        /\ proc'[q].listens = proc[q].listens
        /\ \/ proc'[q].pc = "closing" /\ proc[q].pc = "serve"
           \/ proc'[q] = proc[q]
    BY <2>4, <2>9, <2>14 DEF Asked, ProcStates
  <3>3. Born' = Born /\ path' = path
    BY <1>4 DEF Born
  <3>4. ProcOK(q)
    BY <2>1 DEF IInv, Processes
  <3>5. SlotOK(proc'[q], Born', ghost'.well)
    BY <2>3, <2>10, <3>2, <3>3, <3>4, <2>1 DEF ProcOK, SlotOK, Listening, Brokers
  <3>6. ElectedOK(proc'[q], lock', path', chrome', ghost'.late)
    BY <2>10, <3>1, <3>2, <3>3, <3>4 DEF ProcOK, ElectedOK, Elected, Listening
  <3>7. proc'[q].pc \notin {"grace", "socketGrace"}
    BY <2>14, <3>2 DEF Handles
  <3>8. ProcOK(q)'
    BY <3>5, <3>6, <3>7 DEF ProcOK, WaitOK
  <3>9. QED
    BY <1>4, <2>1, <2>5, <2>8, <2>9, <2>10, <2>11, <2>12, <2>13, <3>1, <3>2, <3>8, EndsStep
 <2>15. CASE ~Handles(q)
  <3>1. Asked(q) = Dead
    BY <2>15 DEF Asked, Handles
  <3>2. lock' = LockWithout(q) /\ chrome' \in ChromesWithout(q)
    BY <1>4, <2>15
  <3>3. QED
    BY <1>4, <2>1, <2>5, <2>8, <2>9, <2>10, <2>11, <2>12, <2>13, <3>1, <3>2, EndsStep
 <2>16. QED
   BY <2>14, <2>15
<1>5. QED
 <2>1. \/ Found(p, socket) = {} /\ (IF socket THEN Goto(p, "scope") ELSE Throws(p))
          /\ UNCHANGED counts
       \/ Fault /\ (IF socket THEN Goto(p, "scope") ELSE Throws(p))
       \/ /\ UNCHANGED counts
          /\ \E q \in Found(p, socket) :
                IF ~Identified(q) THEN Throws(p)
                  ELSE /\ proc' = [proc EXCEPT ![q] = Asked(q),
                             ![p] = [@ EXCEPT !.target = q, !.of = proc[q].life,
                                    !.pc = IF socket THEN "socketGrace" ELSE "grace"]]
                       /\ lock' = IF Handles(q) THEN lock ELSE LockWithout(q)
                       /\ chrome' \in IF Handles(q) THEN {chrome} ELSE ChromesWithout(q)
                       /\ ghost' = [ghost EXCEPT !.asked = @ \cup {proc[q].life},
                                                 !.hit = @ \cup {proc[q].kind}]
                       /\ UNCHANGED <<path, unit>>
   BY DEF TakeOver
 <2>2. QED
   BY <1>2, <1>3, <1>4, <2>1

LEMMA ReleasedStep ==
    ASSUME ElectionConstants, IInv, NEW p \in Pids, NEW socket \in BOOLEAN, Released(p, socket)
    PROVE  IInv'
<1>1. Fault \/ UNCHANGED counts
  BY DEF Released
<1>2. CASE socket
 <2>1. proc[p].pc \in {"socketGrace", "socketForced"} /\ Goto(p, "scope")
   BY <1>2 DEF Released
 <2>2. QED
   BY <1>1, <2>1, Place, GotoStep DEF PCs, Elected, Listening
<1>3. CASE ~socket
 <2>1. proc[p].pc \in {"grace", "forced"} /\ Goto(p, "relock")
   BY <1>3 DEF Released
 <2>2. QED
   BY <1>1, <2>1, Place, GotoStep DEF PCs, Elected, Listening
<1>4. QED
  BY <1>2, <1>3

LEMMA GivesUpStep ==
    ASSUME ElectionConstants, IInv, NEW p \in Pids, NEW socket \in BOOLEAN, GivesUp(p, socket)
    PROVE  IInv'
BY ThrowStep DEF GivesUp

(* The process that is killed is the one that was asked, and a broker. *)
LEMMA ForceEndStep ==
    ASSUME ElectionConstants, IInv, NEW p \in Pids, NEW socket \in BOOLEAN, ForceEnd(p, socket)
    PROVE  IInv'
<1> DEFINE q == proc[p].target
           next == IF socket THEN "socketForced" ELSE "forced"
           grace == IF socket THEN "socketGrace" ELSE "grace"
           x == [proc[p] EXCEPT !.pc = next]
<1>1. /\ TypeOK /\ proc[p].pc = grace /\ q \in Found(p, socket) /\ UNCHANGED counts
      /\ next \in PCs /\ (next \in Elected <=> grace \in Elected)
  BY DEF IInv, ForceEnd, PCs, Elected
<1>2. CASE Goto(p, next)
 <2>1. proc[p].kind \notin {"legacy", "installer"}
   BY <1>1, Place
 <2>2. /\ next \notin {"dead", "grace", "socketGrace", "bind", "unlisten", "release"}
       /\ proc[p].pc # "dead" /\ next \notin Listening /\ proc[p].pc \notin Listening
   BY <1>1 DEF Listening
 <2>3. next \in Elected => proc[p].pc \in Elected
   BY <1>1
 <2>4. next \in PCs
   BY <1>1
 <2> HIDE DEF next, grace
 <2>5. QED
   BY <1>1, <1>2, <2>1, <2>2, <2>3, <2>4, GotoStep
<1>3. CASE /\ Matches(p) /\ proc' = [proc EXCEPT ![p].pc = next, ![q] = Dead]
           /\ lock' = LockWithout(q) /\ chrome' \in ChromesWithout(q)
           /\ ghost' = [ghost EXCEPT !.forced = @ \cup {proc[q].life},
                                     !.hit = @ \cup {proc[q].kind}]
           /\ UNCHANGED <<path, unit>>
 <2>1. q \in Pids /\ p # q
   BY <1>1 DEF Found
 <2>2. /\ proc[q].life \in ghost.asked /\ proc[q].kind \in Brokers
  <3>1. WaitOK(proc[p], Born, ghost.asked) /\ proc[p].pc \in {"grace", "socketGrace"}
    BY <1>1 DEF IInv, Processes, ProcOK
  <3>2. proc[q].life = proc[p].of
    BY <1>3 DEF Matches
  <3>3. QED
    BY <2>1, <3>1, <3>2 DEF WaitOK
 <2>3. /\ proc \in [Pids -> ProcStates] /\ proc[p] \in ProcStates
   BY <1>1 DEF TypeOK, ProcStates
 <2>4. /\ x \in ProcStates /\ x.pc = next /\ x.kind = proc[p].kind /\ x.life = proc[p].life
       /\ x.listens = proc[p].listens
   BY <1>1, <2>3 DEF ProcStates
 <2>5. proc' = [[proc EXCEPT ![p] = x] EXCEPT ![q] = Dead]
   BY <1>3, <2>1, <2>3
 <2>6. /\ proc[p].kind \notin {"legacy", "installer", "none"} /\ proc[p].life # 0
       /\ ~proc[p].listens
   BY <1>1, Place, Alive DEF IInv, Processes, ProcOK, SlotOK, Listening, TypeOK
 <2>7. /\ ghost' \in GhostStates /\ ghost'.well = ghost.well /\ ghost'.late = ghost.late
       /\ ghost'.asked = ghost.asked
       /\ ghost'.forced = ghost.forced \cup {proc[q].life}
       /\ ghost'.hit = ghost.hit \cup {proc[q].kind}
  <3>1. ghost \in GhostStates
    BY <1>1 DEF TypeOK, GhostStates
  <3>2. proc[q].life \in Lives
    BY <2>2, <3>1 DEF GhostStates
  <3>3. QED
    BY <1>3, <2>2, <3>1, <3>2, ForcedAfter
 <2>8. /\ ghost'.hit \subseteq Brokers /\ ghost'.forced \subseteq ghost'.asked
       /\ ghost.asked \subseteq ghost'.asked
   BY <2>2, <2>7 DEF IInv, WellEnded
 <2>9. next \notin {"dead", "grace", "socketGrace", "bind", "unlisten", "release"} \cup Listening
   BY DEF Listening
 <2> HIDE DEF x, next
 <2>10. /\ proc' \in [Pids -> ProcStates] /\ proc'[p] = x /\ proc'[q] = Dead
        /\ \A y \in Pids \ {p, q} : proc'[y] = proc[y]
   BY <2>1, <2>3, <2>4, <2>5, DeadType
 <2>11. ASSUME Born' = Born
        PROVE  ProcOK(p)'
  <3>1. ProcOK(p)
    BY DEF IInv, Processes
  <3>2. SlotOK(x, Born', ghost'.well)
    BY <2>4, <2>6, <2>7, <2>9, <2>11, <3>1 DEF ProcOK, SlotOK
  <3>3. x.pc \in Elected => lock' = proc[p].life
   <4> SUFFICES ASSUME grace \in Elected
                PROVE  lock' = proc[p].life
     BY <1>1, <2>4
   <4>1. lock = proc[p].life
     BY <1>1, <2>6, Place
   <4>2. proc[q].life # lock
     BY <2>1, <2>6, <4>1 DEF IInv, Distinct
   <4>3. QED
     BY <1>3, <4>1, <4>2 DEF LockWithout, Holds
  <3>4. ElectedOK(x, lock', path', chrome', ghost'.late)
    BY <2>4, <2>9, <3>3 DEF ElectedOK
  <3>5. WaitOK(proc[p], Born, ghost.asked)'
    BY <2>4, <2>9, <2>10 DEF WaitOK
  <3>6. QED
    BY <2>10, <3>2, <3>4, <3>5 DEF ProcOK
 <2>12. lock' = lock \/ lock' = 0
   BY <1>3 DEF LockWithout
 <2> HIDE DEF q
 <2>13. QED
   BY <1>1, <1>3, <2>1, <2>4, <2>6, <2>7, <2>8, <2>10, <2>11, <2>12, EndsStep
<1>4. QED
  BY <1>1, <1>2, <1>3 DEF ForceEnd

(* A process starts in an empty slot, with a life of its own. *)
LEMMA StartStep ==
    ASSUME ElectionConstants, IInv, NEW p \in Pids, NEW kind \in {"service", "client", "installer"},
           Start(p, kind)
    PROVE  IInv'
<1> DEFINE where == IF kind = "installer" THEN "lock" ELSE "marker"
           x == [Dead EXCEPT !.kind = kind, !.life = unit.starts + counts.others + 2, !.pc = where]
<1>1. /\ TypeOK /\ proc[p] = Dead /\ proc' = [proc EXCEPT ![p] = x]
      /\ UNCHANGED <<lock, path, chrome, ghost>>
  BY DEF IInv, Start
<1>2. /\ unit' \in [state : {"up", "failed", "stopped"}, starts : 0..StartLimit]
      /\ counts' \in [others : 0..MaxOthers, faults : 0..MaxFaults]
      /\ unit'.starts + counts'.others = unit.starts + counts.others + 1
 <2>1. CASE kind = "service"
  <3>1. /\ unit.starts < StartLimit /\ counts' = counts
        /\ unit' = [state |-> "up", starts |-> unit.starts + 1]
    BY <2>1 DEF Start
  <3>2. QED
    BY <1>1, <3>1 DEF TypeOK, ElectionConstants
 <2>2. CASE kind # "service"
  <3>1. /\ counts.others < MaxOthers /\ unit' = unit
        /\ counts' = [counts EXCEPT !.others = counts.others + 1]
    BY <2>2 DEF Start
  <3>2. QED
    BY <1>1, <3>1 DEF TypeOK, ElectionConstants
 <2>3. QED
   BY <2>1, <2>2
<1>3. Born \in Nat /\ Born' \in Nat /\ Born' = Born + 1 /\ Born' \in Lives
  BY <1>1, <1>2 DEF Born, TypeOK, ElectionConstants, Lives
<1>4. unit.starts + counts.others + 2 = Born'
  BY <1>1, <1>2, <1>3 DEF Born, TypeOK, ElectionConstants
<1>5. /\ x \in ProcStates /\ x.life = Born' /\ x.kind = kind /\ x.pc = where /\ ~x.listens
  BY <1>3, <1>4 DEF Dead, ProcStates, Brokers, PCs
<1>6. where \in {"lock", "marker"} /\ (kind = "installer" => where = "lock")
  OBVIOUS
<1> HIDE DEF x, where
<1>7. proc' \in [Pids -> ProcStates] /\ proc'[p] = x /\ Others(p)
  BY <1>1, <1>5 DEF TypeOK, ProcStates, Others
<1>8. TypeOK'
 <2>1. lock # 0 => \E q \in Pids : proc'[q].life = lock
   BY <1>1, <1>7 DEF TypeOK, Others, Dead
 <2>2. QED
   BY <1>1, <1>2, <1>7, <2>1 DEF TypeOK, ProcStates
<1>9. \A q \in Pids : proc[q].life \in Nat /\ proc[q].of \in Nat /\ proc[q].life <= Born
                      /\ proc[q].life \notin ghost.well
  BY <1>1 DEF TypeOK, Lives, IInv, Processes, ProcOK, SlotOK
<1>10. \A q \in Pids : Descends(q) \/ proc'[q].life > Born
  BY <1>3, <1>5, <1>7 DEF Others, Descends
<1>11. ProcOK(p)'
 <2>1. x.life \notin ghost'.well
  <3>1. \A l \in ghost.well : l <= Born
    BY DEF IInv, WellEnded
  <3>2. QED
    BY <1>1, <1>3, <1>5, <3>1
 <2>2. SlotOK(x, Born', ghost'.well)
   BY <1>3, <1>5, <1>6, <2>1 DEF SlotOK
 <2>3. ElectedOK(x, lock', path', chrome', ghost'.late)
   BY <1>5, <1>6 DEF ElectedOK, Elected, Listening
 <2>4. WaitOK(proc[p], Born, ghost.asked)'
   BY <1>5, <1>6, <1>7 DEF WaitOK
 <2>5. QED
   BY <1>7, <2>2, <2>3, <2>4 DEF ProcOK
<1>12. ASSUME NEW q \in Pids, q # p
       PROVE  ProcOK(q)'
 <2>1. Spared(q)
   BY <1>1, <1>9 DEF Spared, ChromeQuiet
 <2>2. QED
   BY <1>1, <1>3, <1>7, <1>9, <1>10, <1>12, <2>1, Unmoved DEF Others
<1>13. Processes'
  BY <1>11, <1>12 DEF Processes
<1>14. Distinct'
 <2>1. \A q \in Pids : q # p => proc'[q].life <= Born
   BY <1>7, <1>9 DEF Others
 <2>2. proc'[p].life > Born
   BY <1>3, <1>5, <1>7
 <2>3. QED
   BY <1>3, <1>7, <1>9, <2>1, <2>2 DEF IInv, Distinct, Others
<1>15. WellEnded'
 <2>1. \A l \in ghost'.well : l <= Born'
  <3>1. \A l \in ghost.well : l \in Nat /\ l <= Born
    BY <1>1 DEF IInv, WellEnded, TypeOK, Lives
  <3>2. QED
    BY <1>1, <1>3, <3>1
 <2>2. ~Legacy => \A q \in Pids : proc'[q].kind # "legacy"
   BY <1>5, <1>7 DEF IInv, WellEnded, Others
 <2>3. QED
   BY <1>1, <2>1, <2>2 DEF IInv, WellEnded
<1>16. QED
  BY <1>8, <1>13, <1>14, <1>15 DEF IInv

-----------------------------------------------------------------------------
(* The theorems. *)

LEMMA StepKeeps ==
    ASSUME ElectionConstants, IInv, Next
    PROVE  IInv'
<1>1. ASSUME NEW p \in Pids, Serve(p)
      PROVE  IInv'
  BY <1>1, Place, GotoStep DEF Serve, PCs, Elected, Listening
<1>2. ASSUME NEW p \in Pids, Launch(p)
      PROVE  IInv'
  BY <1>2, LaunchStep DEF Launch
<1>3. ASSUME NEW p \in Pids, Crash(p)
      PROVE  IInv'
  BY <1>3, DeathStep DEF Crash
<1>4. ASSUME NEW p \in Pids, NEW socket \in BOOLEAN, TakesOver(p, socket)
      PROVE  IInv'
  BY <1>4, TakeOverStep, ReleasedStep, ForceEndStep, GivesUpStep DEF TakesOver
<1>5. ASSUME NEW p \in Pids, Step(p)
      PROVE  IInv'
  BY <1>1, <1>4, <1>5, MarkerStep, AcquireStep, StopScopeStep, OldChromeStep, BindStep, ClosesStep,
     UnlistenStep, ReleaseStep DEF Step
<1>6. QED
  BY <1>2, <1>3, <1>5, StartStep, WorkStep, SignalStep, ChromeDiesStep DEF Next

(* Every step of a start, a takeover, a shutdown, a crash or a signal keeps *)
(* the inductive invariant: who passed the lock holds it, each process has  *)
(* a life of its own, and a takeover waits for a broker it had asked.       *)
THEOREM ElectionIsSound == ElectionConstants => (Spec => []IInv)
<1> SUFFICES ASSUME ElectionConstants
             PROVE  Spec => []IInv
  OBVIOUS
<1>1. Init => IInv
 <2> SUFFICES ASSUME Init
              PROVE  IInv
   OBVIOUS
 <2> DEFINE first == [Dead EXCEPT !.kind = "legacy", !.life = 1, !.pc = "serve", !.listens = TRUE]
 <2>1. PICK legacy \in (IF Legacy THEN Pids ELSE {}) \cup {0} :
           /\ proc = [p \in Pids |-> IF p = legacy THEN first ELSE Dead]
           /\ path = (IF legacy = 0 THEN 0 ELSE 1)
           /\ chrome = [by |-> path, on |-> legacy # 0]
   BY DEF Init
 <2>2. /\ lock = 0 /\ unit = [state |-> "stopped", starts |-> 0]
       /\ counts = [others |-> 0, faults |-> 0]
       /\ ghost = [asked |-> {}, forced |-> {}, well |-> {}, late |-> {}, hit |-> {}]
   BY DEF Init
 <2>3. 1 \in Lives /\ 0 \notin Pids
   BY DEF Lives, ElectionConstants
 <2>4. /\ first \in ProcStates /\ first.kind = "legacy" /\ first.life = 1 /\ first.pc = "serve"
   BY <2>3 DEF Dead, ProcStates, Brokers, PCs
 <2>5. Dead.life = 0 /\ Dead.kind = "none" /\ Dead.pc = "dead" /\ ~Dead.listens
   BY DEF Dead
 <2> HIDE DEF first
 <2>6. TypeOK
   BY <2>1, <2>2, <2>3, <2>4, DeadType DEF TypeOK, ProcStates, ElectionConstants
 <2>7. Born = 1
   BY <2>2 DEF Born
 <2>8. ASSUME NEW p \in Pids
       PROVE  ProcOK(p)
  <3>1. CASE proc[p] = first
    BY <2>2, <2>4, <2>7, <3>1 DEF ProcOK, SlotOK, ElectedOK, WaitOK, Listening
  <3>2. CASE proc[p] = Dead
    BY <2>2, <2>5, <2>7, <3>2 DEF ProcOK, SlotOK, ElectedOK, WaitOK, Elected, Listening
  <3>3. QED
    BY <2>1, <3>1, <3>2
 <2>9. Distinct
   BY <2>1, <2>5 DEF Distinct
 <2>10. WellEnded
   BY <2>1, <2>2, <2>3, <2>5 DEF WellEnded
 <2>11. QED
   BY <2>6, <2>8, <2>9, <2>10 DEF IInv, Processes
<1>2. IInv /\ [Next]_vars => IInv'
 <2> SUFFICES ASSUME IInv, [Next]_vars
              PROVE  IInv'
   OBVIOUS
 <2>1. CASE UNCHANGED vars
   BY <2>1 DEF vars, IInv, TypeOK, Processes, ProcOK, WaitOK, Distinct, WellEnded, Born
 <2>2. QED
   BY <2>1, StepKeeps
<1>3. QED
  BY <1>1, <1>2, PTL DEF Spec

(* Whoever listens holds the lock and the path, a process that ended in its *)
(* own time leaves no Chrome but one it launched after its close, a takeover *)
(* hits what it identified, and the service owns the Chrome it finds.       *)
THEOREM ElectionIsSafe == ElectionConstants => (Spec => []ElectionSafe)
<1> SUFFICES ASSUME ElectionConstants
             PROVE  Spec => []ElectionSafe
  OBVIOUS
<1>1. IInv => ElectionSafe
 <2> SUFFICES ASSUME IInv
              PROVE  ElectionSafe
   OBVIOUS
 <2>1. ListenerIsElected
  <3> SUFFICES ASSUME NEW p \in Pids, proc[p].listens, proc[p].kind # "legacy"
               PROVE  Holds(p) /\ OnSocket(p)
    BY DEF ListenerIsElected, Is
  <3>1. /\ SlotOK(proc[p], Born, ghost.well) /\ ElectedOK(proc[p], lock, path, chrome, ghost.late)
    BY DEF IInv, Processes, ProcOK
  <3>2. proc[p].pc \in Listening /\ proc[p].pc \in Elected /\ proc[p].pc # "dead"
    BY <3>1 DEF SlotOK, Listening, Elected
  <3>3. lock = proc[p].life /\ path = proc[p].life /\ proc[p].life # 0
    BY <3>1, <3>2, Alive DEF ElectedOK
  <3>4. QED
    BY <3>3 DEF Holds, OnSocket
 <2>2. ~Legacy => ServiceOwnsChrome
   BY DEF IInv, Processes, ProcOK, SlotOK, ElectedOK, ServiceOwnsChrome, Is
 <2>3. QED
   BY <2>1, <2>2 DEF IInv, WellEnded, ElectionSafe, OnlyLateOutlives, TakeoverIsIdentified
<1>2. QED
  BY <1>1, ElectionIsSound, PTL

-----------------------------------------------------------------------------
(* BrokerForward *)

(* Connections are made in order; what a call has had done leaves what it   *)
(* may still ask for within its limit; sessions and answers belong to calls *)
(* that got there.                                                          *)
Numbered ==
    /\ \A n \in Conns : wire[n] = "none" <=> n > conn
    /\ \A s \in Openers : heldBy[s] <= conn
    /\ \A c \in Invocations : /\ mine[c] <= conn
                              /\ pc[c] \in {"connecting", "account"} \cup Sent \cup Replied => mine[c] # 0
                              /\ pc[c] = "existing" => conn # 0
RunOK(c) ==
    /\ ran[c] \in {0, 1} \/ (c \in Drives /\ ran[c] = 2)
    /\ pc[c] \in {"idle", "walled", "open sent", "refused"} \cup Unsent => ran[c] = 0
    /\ pc[c] \in {"open sent", "opened", "refused"} => c \in Openers
    /\ pc[c] = "opened" => ran[c] \in {0, 1}
    /\ pc[c] = "command sent" => ran[c] = 0 \/ (c \in Drives /\ ran[c] = 1)
    /\ pc[c] = "walled" => c \notin Openers
    /\ pc[c] \in {"command sent", "answered"} => c \notin Starts
RunsLeft == \A c \in Invocations : RunOK(c)
Settled == {"command sent", "answered", "done"}
LinkOK(c) == /\ pc[c] \in {"command sent", "answered"} => names[c] \in Openers /\ pc[names[c]] \in Settled
             /\ told[c] # "nothing" => pc[c] = "done"
             /\ pc[c] = "answered" /\ c \in Closes => heldBy[names[c]] = 0
Known == (\A s \in known : pc[s] \in Settled) /\ (\A c \in Invocations : LinkOK(c))
CallsOK == ForwardTypeOK /\ Numbered /\ RunsLeft /\ Known

(* A call that has not gone on holds nothing yet, and one that was cancelled *)
(* while it was prepared has ended.                                         *)
PrepOK(c) == /\ pc[c] \in {"idle", "existing"} => ~fresh[c]
             /\ pc[c] = "existing" => old[c] # 0 /\ old[c] <= conn
StoppedOK(c) == c \in cancelled => pc[c] \notin {"idle", "walled"} \cup Unsent
Prepared == \A c \in Invocations : PrepOK(c) /\ StoppedOK(c)

(* Until two calls have replaced one connection: the process's own is the   *)
(* only live one, each before it was replaced by a call that found it dead,  *)
(* and such a call is alone with the one it made until it has forgotten the  *)
(* sessions of the other.                                                   *)
OneLive == \A n \in Conns : wire[n] \in {"opening", "up"} => n = conn
Replaced == \A n \in Conns : n < conn => \E c \in Invocations : fresh[c] /\ old[c] = n
FreshOK(c) == pc[c] = "connecting" /\ fresh[c] =>
                /\ mine[c] = conn
                /\ \A s \in Openers : heldBy[s] # conn
                /\ \A d \in Invocations \ {c} : mine[d] # conn
HeldOK(s) == heldBy[s] # 0 => /\ wire[heldBy[s]] \in {"up", "down"}
                              /\ wire[heldBy[s]] = "up" => s \in known \/ pc[s] = "opened"
InOrder ==
    /\ OneLive /\ Replaced
    /\ \A c \in Invocations : FreshOK(c)
    /\ \A s \in Openers : HeldOK(s)

-----------------------------------------------------------------------------
(* What the steps of one call do to the rest. *)
Places == {"idle", "walled", "done"} \cup Unsent \cup Sent \cup Replied
Tellings == {"nothing", "result", "wall", "stale_lease", "cancelled", "broker_lost", "unavailable"}
Wires == {"none", "opening", "up", "down", "failed"}

LEMMA CallTypes ==
    ASSUME ForwardTypeOK
    PROVE  /\ conn \in 0..MaxConns /\ wire \in [Conns -> Wires] /\ known \subseteq Openers
           /\ walls \subseteq Openers /\ cancelled \subseteq Invocations
           /\ pc \in [Invocations -> Places] /\ told \in [Invocations -> Tellings]
           /\ old \in [Invocations -> 0..MaxConns] /\ mine \in [Invocations -> 0..MaxConns]
           /\ fresh \in [Invocations -> BOOLEAN] /\ heldBy \in [Openers -> 0..MaxConns]
           /\ names \in [Invocations -> Openers \cup {NoSession}] /\ ran \in [Invocations -> 0..2]
BY DEF ForwardTypeOK, Places, Tellings, Wires

LEMMA AwaitsAt ==
    ASSUME ForwardTypeOK, NEW c \in Invocations, NEW where \in Places, Awaits(c, where)
    PROVE  /\ pc' \in [Invocations -> Places] /\ told' = told
           /\ pc'[c] = where /\ \A d \in Invocations \ {c} : pc'[d] = pc[d]
BY CallTypes DEF Awaits

LEMMA EndsAt ==
    ASSUME ForwardTypeOK, NEW c \in Invocations, NEW answer \in Tellings, Ends(c, answer)
    PROVE  /\ pc' \in [Invocations -> Places] /\ told' \in [Invocations -> Tellings]
           /\ pc'[c] = "done" /\ \A d \in Invocations \ {c} : pc'[d] = pc[d]
           /\ told'[c] = answer /\ \A d \in Invocations \ {c} : told'[d] = told[d]
<1>1. "done" \in Places
  BY DEF Places
<1>2. pc \in [Invocations -> Places] /\ told \in [Invocations -> Tellings]
  BY CallTypes
<1>3. pc' \in [Invocations -> Places] /\ pc'[c] = "done" /\ \A d \in Invocations \ {c} : pc'[d] = pc[d]
  BY <1>1, <1>2 DEF Ends
<1>4. /\ told' \in [Invocations -> Tellings]
      /\ told'[c] = answer /\ \A d \in Invocations \ {c} : told'[d] = told[d]
  BY <1>2 DEF Ends
<1>5. QED
  BY <1>3, <1>4

LEMMA LeastUnused ==
    ASSUME ForwardAssumption, ForwardTypeOK, Numbered, Unused # {}
    PROVE  conn + 1 \in Conns /\ Min(Unused) = conn + 1 /\ wire[conn + 1] = "none"
<1>1. conn \in 0..MaxConns /\ MaxConns \in Nat
  BY CallTypes DEF ForwardAssumption
<1>2. \A n \in Unused : n \in Conns /\ n \in Nat /\ n >= conn + 1
  BY <1>1 DEF Unused, Numbered, Conns
<1>3. PICK u \in Unused : TRUE
  OBVIOUS
<1>4. conn + 1 \in Conns /\ conn + 1 > conn
  BY <1>1, <1>2, <1>3 DEF Conns
<1>5. wire[conn + 1] = "none"
  BY <1>4 DEF Numbered
<1>6. conn + 1 \in Unused
  BY <1>4, <1>5 DEF Unused
<1>7. Min(Unused) \in Unused /\ \A n \in Unused : Min(Unused) <= n
  BY <1>2, <1>6 DEF Min
<1>8. Min(Unused) = conn + 1
  BY <1>1, <1>2, <1>6, <1>7
<1>9. QED
  BY <1>4, <1>5, <1>8

(* A connection is opened for a call, or the one there is becomes its own. *)
Opens(c) ==
    /\ conn' = conn + 1 /\ conn' \in Conns /\ wire' \in [Conns -> Wires]
    /\ wire[conn'] = "none" /\ wire'[conn'] = "opening"
    /\ \A n \in Conns \ {conn'} : wire'[n] = wire[n]
    /\ mine' \in [Invocations -> 0..MaxConns] /\ mine'[c] = conn'
    /\ \A d \in Invocations \ {c} : mine'[d] = mine[d]
Joins(c) ==
    /\ conn' = conn /\ wire' = wire /\ conn # 0
    /\ mine' \in [Invocations -> 0..MaxConns] /\ mine'[c] = conn
    /\ \A d \in Invocations \ {c} : mine'[d] = mine[d]

LEMMA ConnectsAt ==
    ASSUME ForwardAssumption, ForwardTypeOK, Numbered, NEW c \in Invocations,
           NEW current \in {0, conn}, Connects(c, current)
    PROVE  \/ current = 0 /\ Opens(c)
           \/ current = conn /\ Joins(c)
<1>1. /\ conn \in 0..MaxConns /\ MaxConns \in Nat /\ wire \in [Conns -> Wires]
      /\ mine \in [Invocations -> 0..MaxConns]
  BY CallTypes DEF ForwardAssumption
<1>2. CASE current # 0
  BY <1>1, <1>2 DEF Connects, Joins
<1>3. CASE current = 0
 <2> DEFINE m == conn + 1
 <2>1. Unused # {} /\ conn' = Min(Unused) /\ wire' = [wire EXCEPT ![Min(Unused)] = "opening"]
       /\ mine' = [mine EXCEPT ![c] = Min(Unused)]
   BY <1>3 DEF Connects
 <2>2. Min(Unused) = m /\ m \in Conns /\ wire[m] = "none"
   BY <2>1, LeastUnused
 <2>3. m \in 0..MaxConns
   BY <1>1, <2>2 DEF Conns
 <2>4. conn' = m /\ wire' = [wire EXCEPT ![m] = "opening"] /\ mine' = [mine EXCEPT ![c] = m]
   BY <2>1, <2>2
 <2>5. conn' = conn + 1
   BY <2>4
 <2> HIDE DEF m
 <2>6. "opening" \in Wires
   BY DEF Wires
 <2>7. wire' \in [Conns -> Wires] /\ wire'[m] = "opening" /\ \A n \in Conns \ {m} : wire'[n] = wire[n]
   BY <1>1, <2>2, <2>4, <2>6
 <2>8. mine' \in [Invocations -> 0..MaxConns] /\ mine'[c] = m /\ \A d \in Invocations \ {c} : mine'[d] = mine[d]
   BY <1>1, <2>3, <2>4
 <2>9. QED
   BY <1>3, <2>2, <2>4, <2>5, <2>7, <2>8 DEF Opens
<1>4. QED
  BY <1>2, <1>3

-----------------------------------------------------------------------------
(* What each action does, said of each function at each call. *)
Same == UNCHANGED <<conn, wire, mine>>
OtherCalls(c) ==
    \A d \in Invocations \ {c} : /\ pc'[d] = pc[d] /\ told'[d] = told[d] /\ mine'[d] = mine[d]
                                 /\ old'[d] = old[d] /\ names'[d] = names[d] /\ fresh'[d] = fresh[d]

LEMMA InvokeAt ==
    ASSUME ForwardAssumption, ForwardTypeOK, Numbered, NEW c \in Invocations, Invoke(c)
    PROVE  /\ ForwardTypeOK' /\ OtherCalls(c) /\ pc[c] = "idle"
           /\ UNCHANGED <<told, ran, heldBy, known, walls, fresh, cancelled>>
           /\ \/ pc'[c] = "walled" /\ c \notin Openers /\ Same
              \/ pc'[c] = "existing" /\ conn # 0 /\ old'[c] = conn /\ Same
              \/ pc'[c] = "connecting" /\ conn = 0 /\ Opens(c)
<1>1. PICK s \in {NoSession} \cup {o \in Openers : told[o] \in {"result", "wall"}} :
        /\ names' = [names EXCEPT ![c] = s]
        /\ IF c \notin Openers /\ s \in walls
           THEN Awaits(c, "walled") /\ UNCHANGED <<process, wire, old, mine>>
           ELSE IF conn # 0
           THEN Awaits(c, "existing") /\ old' = [old EXCEPT ![c] = conn] /\ UNCHANGED <<process, wire, mine>>
           ELSE Awaits(c, "connecting") /\ Connects(c, conn) /\ UNCHANGED <<known, walls, old>>
  BY DEF Invoke
<1>2. /\ pc[c] = "idle"
      /\ UNCHANGED <<told, ran, heldBy, known, walls, fresh, cancelled>>
  BY <1>1 DEF Invoke, broker, process, Awaits
<1>3. names' \in [Invocations -> Openers \cup {NoSession}] /\ \A d \in Invocations \ {c} : names'[d] = names[d]
  BY <1>1, CallTypes
<1>4. pc' \in [Invocations -> Places] /\ \A d \in Invocations \ {c} : pc'[d] = pc[d]
 <2>1. {"walled", "existing", "connecting"} \subseteq Places
   BY DEF Places, Unsent
 <2>2. QED
   BY <1>1, <2>1, AwaitsAt
<1>5. old' \in [Invocations -> 0..MaxConns] /\ \A d \in Invocations \ {c} : old'[d] = old[d]
 <2>1. conn \in 0..MaxConns /\ old \in [Invocations -> 0..MaxConns]
   BY CallTypes
 <2>2. QED
   BY <1>1, <2>1
<1>6. \/ pc'[c] = "walled" /\ c \notin Openers /\ Same
      \/ pc'[c] = "existing" /\ conn # 0 /\ old'[c] = conn /\ Same
      \/ pc'[c] = "connecting" /\ conn = 0 /\ Opens(c)
 <2>1. {"walled", "existing", "connecting"} \subseteq Places
   BY DEF Places, Unsent
 <2>2. CASE c \notin Openers /\ s \in walls
   BY <1>1, <2>1, <2>2, AwaitsAt DEF Same, process
 <2>3. CASE ~(c \notin Openers /\ s \in walls) /\ conn # 0
  <3>1. conn \in 0..MaxConns /\ old \in [Invocations -> 0..MaxConns]
    BY CallTypes
  <3>2. QED
    BY <1>1, <2>1, <2>3, <3>1, AwaitsAt DEF Same, process
 <2>4. CASE ~(c \notin Openers /\ s \in walls) /\ conn = 0
  <3>1. Awaits(c, "connecting") /\ Connects(c, conn) /\ conn \in {0, conn}
    BY <1>1, <2>4
  <3>2. Opens(c) \/ Joins(c)
    BY <3>1, ConnectsAt
  <3>3. Opens(c)
    BY <3>2, <2>4 DEF Joins
  <3>4. QED
    BY <2>1, <2>4, <3>1, <3>3, AwaitsAt
 <2>5. QED
   BY <2>2, <2>3, <2>4
<1>7. /\ conn' \in 0..MaxConns /\ wire' \in [Conns -> Wires]
      /\ mine' \in [Invocations -> 0..MaxConns] /\ \A d \in Invocations \ {c} : mine'[d] = mine[d]
  BY <1>6, CallTypes DEF Same, Opens, Conns, ForwardAssumption
<1>8. ForwardTypeOK'
  BY <1>2, <1>3, <1>4, <1>5, <1>7, CallTypes DEF ForwardTypeOK, Places, Tellings, Wires
<1>9. OtherCalls(c)
  BY <1>2, <1>3, <1>4, <1>5, <1>7 DEF OtherCalls
<1>10. QED
  BY <1>2, <1>6, <1>8, <1>9

LEMMA ExistingAt ==
    ASSUME ForwardAssumption, ForwardTypeOK, Numbered, NEW c \in Invocations, Existing(c)
    PROVE  /\ ForwardTypeOK' /\ OtherCalls(c) /\ pc[c] = "existing" /\ pc'[c] = "connecting"
           /\ wire[old[c]] # "opening" /\ Maker(old[c]) = {} /\ (fresh'[c] <=> wire[old[c]] # "up")
           /\ UNCHANGED <<told, ran, heldBy, known, walls, cancelled, old, names>>
           /\ \/ wire[old[c]] = "up" /\ Joins(c)
              \/ wire[old[c]] # "up" /\ Opens(c)
<1>1. /\ pc[c] = "existing" /\ wire[old[c]] # "opening" /\ Maker(old[c]) = {}
      /\ fresh' = [fresh EXCEPT ![c] = wire[old[c]] # "up"]
      /\ Awaits(c, "connecting")
      /\ Connects(c, IF wire[old[c]] = "up" THEN conn ELSE 0)
      /\ UNCHANGED <<told, ran, heldBy, known, walls, cancelled, old, names>>
  BY DEF Existing, Awaits, broker
<1>2. conn # 0
  BY <1>1 DEF Numbered
<1>3. fresh' \in [Invocations -> BOOLEAN] /\ (fresh'[c] <=> wire[old[c]] # "up")
      /\ \A d \in Invocations \ {c} : fresh'[d] = fresh[d]
 <2> DEFINE b == wire[old[c]] # "up"
 <2>1. b \in BOOLEAN
   OBVIOUS
 <2>2. fresh' = [fresh EXCEPT ![c] = b] /\ fresh \in [Invocations -> BOOLEAN]
   BY <1>1, CallTypes
 <2> HIDE DEF b
 <2>3. fresh' \in [Invocations -> BOOLEAN] /\ fresh'[c] = b
       /\ \A d \in Invocations \ {c} : fresh'[d] = fresh[d]
   BY <2>1, <2>2
 <2>4. QED
   BY <2>3 DEF b
<1>4. pc' \in [Invocations -> Places] /\ pc'[c] = "connecting" /\ \A d \in Invocations \ {c} : pc'[d] = pc[d]
 <2>1. "connecting" \in Places
   BY DEF Places, Unsent
 <2>2. QED
   BY <1>1, <2>1, AwaitsAt
<1>5. \/ wire[old[c]] = "up" /\ Joins(c)
      \/ wire[old[c]] # "up" /\ Opens(c)
 <2>1. CASE wire[old[c]] = "up"
  <3>1. Connects(c, conn) /\ conn \in {0, conn}
    BY <1>1, <2>1
  <3>2. QED
    BY <3>1, <2>1, <1>2, ConnectsAt
 <2>2. CASE wire[old[c]] # "up"
  <3>1. Connects(c, 0) /\ 0 \in {0, conn}
    BY <1>1, <2>2
  <3>2. QED
    BY <3>1, <2>2, <1>2, ConnectsAt
 <2>3. QED
   BY <2>1, <2>2
<1>6. /\ conn' \in 0..MaxConns /\ wire' \in [Conns -> Wires]
      /\ mine' \in [Invocations -> 0..MaxConns] /\ \A d \in Invocations \ {c} : mine'[d] = mine[d]
  BY <1>5, CallTypes DEF Joins, Opens, Conns, ForwardAssumption
<1>7. ForwardTypeOK'
  BY <1>1, <1>3, <1>4, <1>6, CallTypes DEF ForwardTypeOK, Places, Tellings, Wires
<1>8. OtherCalls(c)
  BY <1>1, <1>3, <1>4, <1>6 DEF OtherCalls
<1>9. QED
  BY <1>1, <1>3, <1>4, <1>5, <1>7, <1>8

LEMMA ReplayWallAt ==
    ASSUME ForwardAssumption, CallsOK, NEW c \in Invocations, ReplayWall(c)
    PROVE  /\ ForwardTypeOK' /\ OtherCalls(c) /\ pc[c] = "walled"
           /\ UNCHANGED <<conn, wire, mine, known, old, names, fresh, ran, heldBy, cancelled>>
           /\ pc'[c] = "done" /\ told'[c] \in {"result", "wall"}
<1> USE DEF CallsOK
<1>1. /\ pc[c] = "walled"
      /\ UNCHANGED <<conn, wire, mine, known, old, names, fresh, ran, heldBy, cancelled>>
  BY DEF ReplayWall, process, locals, broker, locals
<1>2. /\ pc' \in [Invocations -> Places] /\ told' \in [Invocations -> Tellings]
      /\ \A d \in Invocations \ {c} : pc'[d] = pc[d] /\ told'[d] = told[d]
      /\ pc'[c] = "done" /\ told'[c] \in {"result", "wall"}
 <2>1. {"done"} \subseteq Places /\ {"result", "wall"} \subseteq Tellings
   BY DEF Places, Tellings, Unsent, Sent, Replied
 <2>2. QED
   BY <2>1, AwaitsAt, EndsAt, CallTypes DEF ReplayWall, locals
<1>3. walls' \subseteq Openers
  BY CallTypes DEF ReplayWall
<1>8. ForwardTypeOK'
  BY <1>1, <1>2, CallTypes, <1>3 DEF ForwardTypeOK, Places, Tellings, Wires
<1>9. QED
  BY <1>1, <1>2, <1>8, <1>3 DEF OtherCalls

LEMMA ConnectedAt ==
    ASSUME ForwardAssumption, CallsOK, NEW c \in Invocations, Connected(c)
    PROVE  /\ ForwardTypeOK' /\ OtherCalls(c) /\ pc[c] = "connecting"
           /\ UNCHANGED <<conn, wire, mine, walls, old, names, fresh, ran, heldBy, cancelled>>
           /\ wire[mine[c]] # "opening"
           /\ \/ wire[mine[c]] = "failed" /\ pc'[c] = "done" /\ told'[c] = "unavailable" /\ known' = known
              \/ wire[mine[c]] # "failed" /\ pc'[c] = "account" /\ told' = told
                 /\ known' = IF fresh[c] THEN {} ELSE known
<1> USE DEF CallsOK
<1>1. /\ pc[c] = "connecting"
      /\ UNCHANGED <<conn, wire, mine, walls, old, names, fresh, ran, heldBy, cancelled>>
      /\ wire[mine[c]] # "opening"
  BY DEF Connected, process, locals, broker, locals
<1>2. /\ pc' \in [Invocations -> Places] /\ told' \in [Invocations -> Tellings]
      /\ \A d \in Invocations \ {c} : pc'[d] = pc[d] /\ told'[d] = told[d]
      /\ \/ wire[mine[c]] = "failed" /\ pc'[c] = "done" /\ told'[c] = "unavailable" /\ known' = known
         \/ wire[mine[c]] # "failed" /\ pc'[c] = "account" /\ told' = told
            /\ known' = IF fresh[c] THEN {} ELSE known
 <2>1. {"done", "account"} \subseteq Places /\ {"unavailable"} \subseteq Tellings
   BY DEF Places, Tellings, Unsent, Sent, Replied
 <2>2. QED
   BY <2>1, AwaitsAt, EndsAt, CallTypes DEF Connected, locals
<1>8. ForwardTypeOK'
  BY <1>1, <1>2, CallTypes DEF ForwardTypeOK, Places, Tellings, Wires
<1>9. QED
  BY <1>1, <1>2, <1>8 DEF OtherCalls

LEMMA DispatchAt ==
    ASSUME ForwardAssumption, CallsOK, NEW c \in Invocations, Dispatch(c)
    PROVE  /\ ForwardTypeOK' /\ OtherCalls(c) /\ pc[c] = "account"
           /\ UNCHANGED <<conn, wire, mine, known, walls, old, fresh, ran, heldBy, cancelled>>
           /\ \/ c \in Openers /\ wire[mine[c]] = "up" /\ pc'[c] = "open sent" /\ told' = told /\ names' = names
              \/ c \notin Openers /\ wire[mine[c]] = "up" /\ pc'[c] = "command sent" /\ told' = told
                 /\ names'[c] \in known
              \/ pc'[c] = "done" /\ told'[c] \in {"stale_lease", "broker_lost"}
<1> USE DEF CallsOK
<1>1. /\ pc[c] = "account"
      /\ UNCHANGED <<conn, wire, mine, known, walls, old, fresh, ran, heldBy, cancelled>>
  BY DEF Dispatch, process, locals, broker, Sends
<1>2. /\ pc' \in [Invocations -> Places] /\ told' \in [Invocations -> Tellings]
      /\ \A d \in Invocations \ {c} : pc'[d] = pc[d] /\ told'[d] = told[d]
      /\ \/ c \in Openers /\ wire[mine[c]] = "up" /\ pc'[c] = "open sent" /\ told' = told /\ names' = names
         \/ c \notin Openers /\ wire[mine[c]] = "up" /\ pc'[c] = "command sent" /\ told' = told
            /\ names'[c] \in known
         \/ pc'[c] = "done" /\ told'[c] \in {"stale_lease", "broker_lost"}
 <2>1. {"done", "open sent", "command sent"} \subseteq Places /\ {"stale_lease", "broker_lost"} \subseteq Tellings
   BY DEF Places, Tellings, Unsent, Sent, Replied
 <2>2. QED
  <3>1. CASE Ends(c, "stale_lease") \/ Ends(c, "broker_lost")
    BY <2>1, <3>1, EndsAt, CallTypes
  <3>2. CASE c \in Openers /\ wire[mine[c]] = "up" /\ Awaits(c, "open sent") /\ names' = names
    BY <2>1, <3>2, AwaitsAt, CallTypes
  <3>3. CASE c \notin Openers /\ wire[mine[c]] = "up" /\ Awaits(c, "command sent") /\ Target(c) \in known
             /\ names' = [names EXCEPT ![c] = Target(c)]
    BY <2>1, <3>3, AwaitsAt, CallTypes
  <3>4. QED
    BY <3>1, <3>2, <3>3 DEF Dispatch, Sends
<1>3. names' \in [Invocations -> Openers \cup {NoSession}] /\ \A d \in Invocations \ {c} : names'[d] = names[d]
  BY CallTypes DEF Dispatch
<1>8. ForwardTypeOK'
  BY <1>1, <1>2, CallTypes, <1>3 DEF ForwardTypeOK, Places, Tellings, Wires
<1>9. QED
  BY <1>1, <1>2, <1>8, <1>3 DEF OtherCalls

LEMMA OpenedAt ==
    ASSUME ForwardAssumption, CallsOK, NEW c \in Invocations, Opened(c)
    PROVE  /\ ForwardTypeOK' /\ OtherCalls(c) /\ pc[c] = "opened"
           /\ UNCHANGED <<conn, wire, mine, walls, old, fresh, ran, heldBy, cancelled>>
           /\ known' = known \cup {c}
           /\ \/ c \in Starts /\ pc'[c] = "done" /\ told'[c] = "result" /\ names' = names
              \/ c \notin Starts /\ names'[c] = c /\ wire[mine[c]] = "up" /\ pc'[c] = "command sent" /\ told' = told
              \/ c \notin Starts /\ names'[c] = c /\ pc'[c] = "done" /\ told'[c] = "broker_lost"
<1> USE DEF CallsOK
<1>1. /\ pc[c] = "opened"
      /\ UNCHANGED <<conn, wire, mine, walls, old, fresh, ran, heldBy, cancelled>>
      /\ known' = known \cup {c}
  BY DEF Opened, process, locals, broker, Sends
<1>2. /\ pc' \in [Invocations -> Places] /\ told' \in [Invocations -> Tellings]
      /\ \A d \in Invocations \ {c} : pc'[d] = pc[d] /\ told'[d] = told[d]
      /\ \/ c \in Starts /\ pc'[c] = "done" /\ told'[c] = "result" /\ names' = names
         \/ c \notin Starts /\ names'[c] = c /\ wire[mine[c]] = "up" /\ pc'[c] = "command sent" /\ told' = told
         \/ c \notin Starts /\ names'[c] = c /\ pc'[c] = "done" /\ told'[c] = "broker_lost"
 <2>1. {"done", "command sent"} \subseteq Places /\ {"result", "broker_lost"} \subseteq Tellings
   BY DEF Places, Tellings, Unsent, Sent, Replied
 <2>2. names \in [Invocations -> Openers \cup {NoSession}] /\ told \in [Invocations -> Tellings]
   BY CallTypes
 <2>3. CASE c \in Starts /\ Ends(c, "result") /\ names' = names
   BY <2>1, <2>3, EndsAt
 <2>4. CASE c \notin Starts /\ names' = [names EXCEPT ![c] = c] /\ Ends(c, "broker_lost")
   BY <2>1, <2>2, <2>4, EndsAt
 <2>5. CASE /\ c \notin Starts /\ names' = [names EXCEPT ![c] = c]
            /\ wire[mine[c]] = "up" /\ Awaits(c, "command sent")
   BY <2>1, <2>2, <2>5, AwaitsAt
 <2>6. QED
   BY <2>3, <2>4, <2>5 DEF Opened, Sends
<1>4. c \in Openers
  BY <1>1 DEF RunsLeft, RunOK
<1>3. names' \in [Invocations -> Openers \cup {NoSession}] /\ \A d \in Invocations \ {c} : names'[d] = names[d]
 <2>1. names \in [Invocations -> Openers \cup {NoSession}]
   BY CallTypes
 <2>2. names' = names \/ names' = [names EXCEPT ![c] = c]
   BY DEF Opened
 <2>3. QED
   BY <1>4, <2>1, <2>2
<1>8. ForwardTypeOK'
  BY <1>1, <1>2, CallTypes, <1>3, <1>4 DEF ForwardTypeOK, Places, Tellings, Wires
<1>9. QED
  BY <1>1, <1>2, <1>8, <1>3, <1>4 DEF OtherCalls

LEMMA DeclinedAt ==
    ASSUME ForwardAssumption, CallsOK, NEW c \in Invocations, Declined(c)
    PROVE  /\ ForwardTypeOK' /\ OtherCalls(c) /\ pc[c] = "refused"
           /\ UNCHANGED <<conn, wire, mine, known, old, names, fresh, ran, heldBy, cancelled>>
           /\ pc'[c] = "done" /\ told'[c] = "wall"
<1> USE DEF CallsOK
<1>1. /\ pc[c] = "refused"
      /\ UNCHANGED <<conn, wire, mine, known, old, names, fresh, ran, heldBy, cancelled>>
  BY DEF Declined, process, locals, broker, locals
<1>2. /\ pc' \in [Invocations -> Places] /\ told' \in [Invocations -> Tellings]
      /\ \A d \in Invocations \ {c} : pc'[d] = pc[d] /\ told'[d] = told[d]
      /\ pc'[c] = "done" /\ told'[c] = "wall"
 <2>1. {"done"} \subseteq Places /\ {"wall"} \subseteq Tellings
   BY DEF Places, Tellings, Unsent, Sent, Replied
 <2>2. QED
   BY <2>1, AwaitsAt, EndsAt, CallTypes DEF Declined, locals
<1>3. walls' \subseteq Openers
  BY <1>1, CallTypes DEF Declined, RunsLeft, RunOK
<1>8. ForwardTypeOK'
  BY <1>1, <1>2, CallTypes, <1>3 DEF ForwardTypeOK, Places, Tellings, Wires
<1>9. QED
  BY <1>1, <1>2, <1>8, <1>3 DEF OtherCalls

LEMMA AnsweredAt ==
    ASSUME ForwardAssumption, CallsOK, NEW c \in Invocations, Answered(c)
    PROVE  /\ ForwardTypeOK' /\ OtherCalls(c) /\ pc[c] = "answered"
           /\ UNCHANGED <<conn, wire, mine, walls, old, names, fresh, ran, heldBy, cancelled>>
           /\ known' = IF c \in Closes THEN known \ {names[c]} ELSE known
           /\ pc'[c] = "done" /\ told'[c] = "result"
<1> USE DEF CallsOK
<1>1. /\ pc[c] = "answered"
      /\ UNCHANGED <<conn, wire, mine, walls, old, names, fresh, ran, heldBy, cancelled>>
      /\ known' = IF c \in Closes THEN known \ {names[c]} ELSE known
  BY DEF Answered, process, locals, broker, locals
<1>2. /\ pc' \in [Invocations -> Places] /\ told' \in [Invocations -> Tellings]
      /\ \A d \in Invocations \ {c} : pc'[d] = pc[d] /\ told'[d] = told[d]
      /\ pc'[c] = "done" /\ told'[c] = "result"
 <2>1. {"done"} \subseteq Places /\ {"result"} \subseteq Tellings
   BY DEF Places, Tellings, Unsent, Sent, Replied
 <2>2. QED
   BY <2>1, AwaitsAt, EndsAt, CallTypes DEF Answered, locals
<1>8. ForwardTypeOK'
  BY <1>1, <1>2, CallTypes DEF ForwardTypeOK, Places, Tellings, Wires
<1>9. QED
  BY <1>1, <1>2, <1>8 DEF OtherCalls

LEMMA CancelAt ==
    ASSUME ForwardAssumption, CallsOK, NEW c \in Invocations, Cancel(c)
    PROVE  /\ ForwardTypeOK' /\ OtherCalls(c) /\ pc[c] \in Unsent \cup Sent \cup Replied
           /\ UNCHANGED <<conn, wire, mine, known, walls, old, names, fresh, ran, heldBy>>
           /\ cancelled' = cancelled \cup {c}
           /\ \/ pc[c] \in Unsent /\ pc'[c] = "done" /\ told'[c] = "cancelled"
              \/ pc[c] \notin Unsent /\ pc' = pc /\ told' = told
<1> USE DEF CallsOK
<1>1. /\ pc[c] \in Unsent \cup Sent \cup Replied
      /\ UNCHANGED <<conn, wire, mine, known, walls, old, names, fresh, ran, heldBy>>
      /\ cancelled' = cancelled \cup {c}
  BY DEF Cancel, process, locals, broker, locals
<1>2. /\ pc' \in [Invocations -> Places] /\ told' \in [Invocations -> Tellings]
      /\ \A d \in Invocations \ {c} : pc'[d] = pc[d] /\ told'[d] = told[d]
      /\ \/ pc[c] \in Unsent /\ pc'[c] = "done" /\ told'[c] = "cancelled"
         \/ pc[c] \notin Unsent /\ pc' = pc /\ told' = told
 <2>1. {"done"} \subseteq Places /\ {"cancelled"} \subseteq Tellings
   BY DEF Places, Tellings, Unsent, Sent, Replied
 <2>2. QED
   BY <2>1, AwaitsAt, EndsAt, CallTypes DEF Cancel, locals
<1>8. ForwardTypeOK'
  BY <1>1, <1>2, CallTypes DEF ForwardTypeOK, Places, Tellings, Wires
<1>9. QED
  BY <1>1, <1>2, <1>8 DEF OtherCalls

LEMMA AbortedAt ==
    ASSUME ForwardAssumption, CallsOK, NEW c \in Invocations, Aborted(c)
    PROVE  /\ ForwardTypeOK' /\ OtherCalls(c) /\ pc[c] \in Sent
           /\ UNCHANGED <<conn, wire, mine, known, walls, old, names, fresh, ran, heldBy, cancelled>>
           /\ pc'[c] = "done" /\ told'[c] = "cancelled"
<1> USE DEF CallsOK
<1>1. /\ pc[c] \in Sent
      /\ UNCHANGED <<conn, wire, mine, known, walls, old, names, fresh, ran, heldBy, cancelled>>
  BY DEF Aborted, process, locals, broker, Serves
<1>2. /\ pc' \in [Invocations -> Places] /\ told' \in [Invocations -> Tellings]
      /\ \A d \in Invocations \ {c} : pc'[d] = pc[d] /\ told'[d] = told[d]
      /\ pc'[c] = "done" /\ told'[c] = "cancelled"
 <2>1. {"done"} \subseteq Places /\ {"cancelled"} \subseteq Tellings
   BY DEF Places, Tellings, Unsent, Sent, Replied
 <2>2. QED
   BY <2>1, AwaitsAt, EndsAt, CallTypes DEF Aborted, Serves
<1>8. ForwardTypeOK'
  BY <1>1, <1>2, CallTypes DEF ForwardTypeOK, Places, Tellings, Wires
<1>9. QED
  BY <1>1, <1>2, <1>8 DEF OtherCalls

LEMMA OpenAt ==
    ASSUME ForwardAssumption, CallsOK, NEW c \in Invocations, Open(c)
    PROVE  /\ ForwardTypeOK' /\ OtherCalls(c) /\ pc[c] = "open sent"
           /\ UNCHANGED <<conn, wire, mine, known, walls, old, names, fresh, cancelled>>
           /\ wire[mine[c]] = "up" /\ told' = told /\ c \in Openers
           /\ \A d \in Invocations \ {c} : ran'[d] = ran[d]
           /\ \A s \in Openers \ {c} : heldBy'[s] = heldBy[s]
           /\ \/ pc'[c] = "opened" /\ heldBy'[c] = mine[c] /\ ran'[c] = 1
              \/ pc'[c] = "refused" /\ heldBy' = heldBy /\ ran' = ran
<1> USE DEF CallsOK
<1>1. /\ pc[c] = "open sent" /\ wire[mine[c]] = "up" /\ told' = told
      /\ UNCHANGED <<conn, wire, mine, known, walls, old, names, fresh, cancelled>>
  BY DEF Open, process, locals, Serves, Awaits
<1>2. c \in Openers /\ ran[c] = 0
  BY <1>1 DEF RunsLeft, RunOK
<1>3. \/ /\ Awaits(c, "opened") /\ heldBy' = [heldBy EXCEPT ![c] = mine[c]]
         /\ ran' = [ran EXCEPT ![c] = 1]
      \/ Awaits(c, "refused") /\ heldBy' = heldBy /\ ran' = ran
 <2>1. \/ /\ Awaits(c, "opened") /\ heldBy' = [heldBy EXCEPT ![c] = mine[c]]
          /\ ran' = [ran EXCEPT ![c] = ran[c] + 1]
       \/ Awaits(c, "refused") /\ heldBy' = heldBy /\ ran' = ran
   BY DEF Open, broker
 <2>2. ran[c] + 1 = 1
   BY <1>2
 <2>3. QED
   BY <2>1, <2>2
<1>4. "opened" \in Places /\ "refused" \in Places
  BY DEF Places, Replied
<1>5. /\ pc' \in [Invocations -> Places] /\ \A d \in Invocations \ {c} : pc'[d] = pc[d]
      /\ ran' \in [Invocations -> 0..2] /\ \A d \in Invocations \ {c} : ran'[d] = ran[d]
      /\ heldBy' \in [Openers -> 0..MaxConns] /\ \A s \in Openers \ {c} : heldBy'[s] = heldBy[s]
      /\ \/ pc'[c] = "opened" /\ heldBy'[c] = mine[c] /\ ran'[c] = 1
         \/ pc'[c] = "refused" /\ heldBy' = heldBy /\ ran' = ran
 <2>1. mine[c] \in 0..MaxConns /\ 1 \in 0..2
   BY CallTypes
 <2>2. heldBy \in [Openers -> 0..MaxConns] /\ ran \in [Invocations -> 0..2]
   BY CallTypes
 <2>3. CASE Awaits(c, "opened") /\ heldBy' = [heldBy EXCEPT ![c] = mine[c]] /\ ran' = [ran EXCEPT ![c] = 1]
   BY <1>2, <1>4, <2>1, <2>2, <2>3, AwaitsAt
 <2>4. CASE Awaits(c, "refused") /\ heldBy' = heldBy /\ ran' = ran
   BY <1>4, <2>2, <2>4, AwaitsAt
 <2>5. QED
   BY <1>3, <2>3, <2>4
<1>6. ForwardTypeOK'
  BY <1>1, <1>5, CallTypes DEF ForwardTypeOK, Places, Tellings, Wires
<1>7. QED
  BY <1>1, <1>2, <1>5, <1>6 DEF OtherCalls

LEMMA RunsAt ==
    ASSUME ForwardAssumption, CallsOK, NEW c \in Invocations, Runs(c)
    PROVE  /\ ForwardTypeOK' /\ OtherCalls(c) /\ pc[c] = "command sent"
           /\ UNCHANGED <<conn, wire, mine, known, walls, old, names, fresh, cancelled>>
           /\ wire[mine[c]] = "up" /\ names[c] \in Openers
           /\ \A d \in Invocations \ {c} : ran'[d] = ran[d]
           /\ \A s \in Openers : heldBy'[s] \in {heldBy[s], 0}
           /\ \/ pc'[c] = "answered" /\ told' = told /\ ran'[c] = ran[c] + 1
                 /\ (c \in Closes => heldBy'[names[c]] = 0)
                 /\ (c \notin Closes => heldBy' = heldBy)
              \/ pc'[c] = "done" /\ told'[c] = "stale_lease" /\ heldBy' = heldBy /\ ran' = ran
<1> USE DEF CallsOK
<1>1. /\ pc[c] = "command sent" /\ wire[mine[c]] = "up"
      /\ UNCHANGED <<conn, wire, mine, known, walls, old, names, fresh, cancelled>>
  BY DEF Runs, process, locals, Serves
<1>2. names[c] \in Openers /\ ran[c] + 1 \in 0..2
 <2>1. ran[c] \in {0, 1} /\ names[c] \in Openers
   BY <1>1 DEF RunsLeft, RunOK, Known, LinkOK
 <2>2. ran[c] \in 0..2
   BY CallTypes
 <2>3. QED
   BY <2>1, <2>2
<1> DEFINE m == ran[c] + 1
<1>3. \/ /\ Awaits(c, "answered") /\ ran' = [ran EXCEPT ![c] = m]
         /\ heldBy' = IF c \in Closes THEN [heldBy EXCEPT ![names[c]] = 0] ELSE heldBy
      \/ Ends(c, "stale_lease") /\ heldBy' = heldBy /\ ran' = ran
  BY CallTypes DEF Runs, broker
<1>4. "answered" \in Places /\ "stale_lease" \in Tellings /\ m \in 0..2
  BY <1>2 DEF Places, Replied, Tellings
<1> HIDE DEF m
<1>5. /\ pc' \in [Invocations -> Places] /\ \A d \in Invocations \ {c} : pc'[d] = pc[d]
      /\ told' \in [Invocations -> Tellings] /\ \A d \in Invocations \ {c} : told'[d] = told[d]
      /\ ran' \in [Invocations -> 0..2] /\ \A d \in Invocations \ {c} : ran'[d] = ran[d]
      /\ heldBy' \in [Openers -> 0..MaxConns] /\ \A s \in Openers : heldBy'[s] \in {heldBy[s], 0}
      /\ \/ pc'[c] = "answered" /\ told' = told /\ ran'[c] = m
            /\ (c \in Closes => heldBy'[names[c]] = 0)
            /\ (c \notin Closes => heldBy' = heldBy)
         \/ pc'[c] = "done" /\ told'[c] = "stale_lease" /\ heldBy' = heldBy /\ ran' = ran
 <2>1. 0 \in 0..MaxConns
   BY DEF ForwardAssumption
 <2>2. /\ heldBy \in [Openers -> 0..MaxConns] /\ ran \in [Invocations -> 0..2]
       /\ told \in [Invocations -> Tellings]
   BY CallTypes
 <2>3. ASSUME Awaits(c, "answered"), ran' = [ran EXCEPT ![c] = m],
              heldBy' = IF c \in Closes THEN [heldBy EXCEPT ![names[c]] = 0] ELSE heldBy
       PROVE  /\ pc' \in [Invocations -> Places] /\ \A d \in Invocations \ {c} : pc'[d] = pc[d]
              /\ told' = told /\ pc'[c] = "answered" /\ ran'[c] = m
              /\ ran' \in [Invocations -> 0..2] /\ \A d \in Invocations \ {c} : ran'[d] = ran[d]
              /\ heldBy' \in [Openers -> 0..MaxConns] /\ \A s \in Openers : heldBy'[s] \in {heldBy[s], 0}
              /\ c \in Closes => heldBy'[names[c]] = 0
              /\ c \notin Closes => heldBy' = heldBy
  <3>1. ran' \in [Invocations -> 0..2] /\ ran'[c] = m /\ \A d \in Invocations \ {c} : ran'[d] = ran[d]
    BY <1>4, <2>2, <2>3
  <3>2. /\ heldBy' \in [Openers -> 0..MaxConns] /\ \A s \in Openers : heldBy'[s] \in {heldBy[s], 0}
        /\ c \in Closes => heldBy'[names[c]] = 0
        /\ c \notin Closes => heldBy' = heldBy
    BY <1>2, <2>1, <2>2, <2>3
  <3>3. QED
    BY <1>4, <2>2, <2>3, <3>1, <3>2, AwaitsAt
 <2>4. CASE Ends(c, "stale_lease") /\ heldBy' = heldBy /\ ran' = ran
   BY <1>4, <2>2, <2>4, EndsAt
 <2>5. QED
   BY <1>3, <2>2, <2>3, <2>4
<1>6. ForwardTypeOK'
  BY <1>1, <1>5, CallTypes DEF ForwardTypeOK, Places, Tellings, Wires
<1>7. QED
  BY <1>1, <1>2, <1>5, <1>6 DEF OtherCalls, m

-----------------------------------------------------------------------------
(* And the steps of a connection. *)
LEMMA HandshakeAt ==
    ASSUME ForwardAssumption, ForwardTypeOK, NEW n \in Conns, Handshake(n)
    PROVE  /\ ForwardTypeOK' /\ wire[n] = "opening" /\ wire'[n] \in {"up", "failed"}
           /\ \A k \in Conns \ {n} : wire'[k] = wire[k]
           /\ UNCHANGED <<conn, pc, told, mine, known, walls, old, names, fresh, ran, heldBy, cancelled>>
<1>1. /\ wire[n] = "opening"
      /\ UNCHANGED <<conn, pc, told, mine, known, walls, old, names, fresh, ran, heldBy, cancelled>>
  BY DEF Handshake, process, locals, broker
<1>2. PICK s \in {"up", "failed"} : wire' = [wire EXCEPT ![n] = s]
  BY DEF Handshake
<1>3. wire' \in [Conns -> Wires] /\ wire'[n] = s /\ \A k \in Conns \ {n} : wire'[k] = wire[k]
  BY <1>2, CallTypes DEF Wires
<1>4. ForwardTypeOK'
  BY <1>1, <1>3, CallTypes DEF ForwardTypeOK, Places, Tellings, Wires
<1>5. QED
  BY <1>1, <1>2, <1>3, <1>4

LEMMA DropsAt ==
    ASSUME ForwardAssumption, ForwardTypeOK, NEW n \in Conns, Drops(n)
    PROVE  /\ ForwardTypeOK' /\ wire[n] = "up" /\ wire'[n] = "down"
           /\ \A k \in Conns \ {n} : wire'[k] = wire[k]
           /\ UNCHANGED <<conn, mine, known, walls, old, names, fresh, ran, heldBy, cancelled>>
           /\ \A c \in Invocations :
                \/ pc'[c] = pc[c] /\ told'[c] = told[c] /\ (mine[c] = n => pc[c] \notin Sent)
                \/ /\ mine[c] = n /\ pc[c] \in Sent \cup Replied
                   /\ pc'[c] = "done" /\ told'[c] = "broker_lost"
<1>1. /\ wire[n] = "up" /\ wire' = [wire EXCEPT ![n] = "down"]
      /\ UNCHANGED <<conn, mine, known, walls, old, names, fresh, ran, heldBy, cancelled>>
  BY DEF Drops, process, locals, broker
<1>2. PICK lost \in SUBSET Invocations :
        /\ Unanswered(n, lost)
        /\ pc' = [c \in Invocations |-> IF c \in lost THEN "done" ELSE pc[c]]
        /\ told' = [c \in Invocations |-> IF c \in lost THEN "broker_lost" ELSE told[c]]
  BY DEF Drops
<1>3. wire' \in [Conns -> Wires] /\ wire'[n] = "down" /\ \A k \in Conns \ {n} : wire'[k] = wire[k]
  BY <1>1, CallTypes DEF Wires
<1>4. pc' \in [Invocations -> Places] /\ told' \in [Invocations -> Tellings]
  BY <1>2, CallTypes DEF Places, Tellings
<1>5. \A c \in Invocations :
        \/ pc'[c] = pc[c] /\ told'[c] = told[c] /\ (mine[c] = n => pc[c] \notin Sent)
        \/ /\ mine[c] = n /\ pc[c] \in Sent \cup Replied
           /\ pc'[c] = "done" /\ told'[c] = "broker_lost"
  BY <1>2 DEF Unanswered
<1>6. ForwardTypeOK'
  BY <1>1, <1>3, <1>4, CallTypes DEF ForwardTypeOK, Places, Tellings, Wires
<1>7. QED
  BY <1>1, <1>3, <1>5, <1>6

LEMMA LeaseEndsAt ==
    ASSUME ForwardAssumption, ForwardTypeOK, NEW n \in Conns, LeaseEnds(n)
    PROVE  /\ ForwardTypeOK' /\ wire[n] = "down"
           /\ UNCHANGED <<conn, wire, pc, told, mine, known, walls, old, names, fresh, ran, cancelled>>
           /\ \A s \in Openers : heldBy'[s] = IF heldBy[s] = n THEN 0 ELSE heldBy[s]
<1>1. /\ wire[n] = "down" /\ heldBy' = [s \in Openers |-> IF heldBy[s] = n THEN 0 ELSE heldBy[s]]
      /\ UNCHANGED <<conn, wire, pc, told, mine, known, walls, old, names, fresh, ran, cancelled>>
  BY DEF LeaseEnds, process, locals
<1>2. heldBy' \in [Openers -> 0..MaxConns]
  BY <1>1, CallTypes DEF ForwardAssumption
<1>3. ForwardTypeOK'
  BY <1>1, <1>2, CallTypes DEF ForwardTypeOK, Places, Tellings, Wires
<1>4. QED
  BY <1>1, <1>3

-----------------------------------------------------------------------------
(* When a step keeps the numbering, the limits and what is known. *)
LEMMA NumberedStep ==
    ASSUME ForwardTypeOK, Numbered, conn' = conn, mine' = mine,
           \A n \in Conns : wire'[n] = "none" <=> wire[n] = "none",
           \A s \in Openers : heldBy'[s] <= conn,
           \A d \in Invocations : pc'[d] = pc[d] \/ pc'[d] \in {"walled", "done"} \/ (mine[d] # 0 /\ conn # 0)
    PROVE  Numbered'
<1>1. \A n \in Conns : wire'[n] = "none" <=> n > conn'
  BY DEF Numbered
<1>2. \A s \in Openers : heldBy'[s] <= conn'
  OBVIOUS
<1>3. ASSUME NEW d \in Invocations
      PROVE  /\ mine'[d] <= conn'
             /\ pc'[d] \in {"connecting", "account"} \cup Sent \cup Replied => mine'[d] # 0
             /\ pc'[d] = "existing" => conn' # 0
  BY DEF Numbered, Sent, Replied
<1>4. QED
  BY <1>1, <1>2, <1>3 DEF Numbered, Sent, Replied

LEMMA OpensNumbered ==
    ASSUME ForwardAssumption, ForwardTypeOK, Numbered, NEW c \in Invocations, Opens(c), heldBy' = heldBy,
           \A d \in Invocations \ {c} : pc'[d] = pc[d]
    PROVE  Numbered'
<1>1. conn \in 0..MaxConns /\ MaxConns \in Nat /\ conn' = conn + 1 /\ conn' \in Conns
      /\ mine \in [Invocations -> 0..MaxConns] /\ heldBy \in [Openers -> 0..MaxConns]
  BY CallTypes DEF ForwardAssumption, Opens
<1>2. ASSUME NEW n \in Conns PROVE wire'[n] = "none" <=> n > conn'
 <2>1. n \in Nat
   BY <1>1 DEF Conns
 <2>2. CASE n = conn'
   BY <1>1, <2>1, <2>2 DEF Opens
 <2>3. CASE n # conn'
  <3>1. wire'[n] = wire[n] /\ (wire[n] = "none" <=> n > conn)
    BY <2>3 DEF Opens, Numbered
  <3>2. QED
    BY <1>1, <2>1, <2>3, <3>1
 <2>4. QED
   BY <2>2, <2>3
<1>3. ASSUME NEW s \in Openers PROVE heldBy'[s] <= conn'
 <2>1. heldBy[s] \in 0..MaxConns /\ heldBy[s] <= conn
   BY <1>1 DEF Numbered
 <2>2. QED
   BY <1>1, <2>1
<1>4. ASSUME NEW d \in Invocations
      PROVE  /\ mine'[d] <= conn'
             /\ pc'[d] \in {"connecting", "account"} \cup Sent \cup Replied => mine'[d] # 0
             /\ pc'[d] = "existing" => conn' # 0
 <2>1. conn' # 0
   BY <1>1
 <2>2. CASE d = c
   BY <1>1, <2>1, <2>2 DEF Opens
 <2>3. CASE d # c
  <3>1. mine'[d] = mine[d] /\ pc'[d] = pc[d] /\ mine[d] <= conn /\ mine[d] \in 0..MaxConns
    BY <1>1, <2>3 DEF Opens, Numbered
  <3>2. pc[d] \in {"connecting", "account"} \cup Sent \cup Replied => mine[d] # 0
    BY DEF Numbered
  <3>3. QED
    BY <1>1, <2>1, <3>1, <3>2
 <2>4. QED
   BY <2>2, <2>3
<1>5. QED
  BY <1>2, <1>3, <1>4 DEF Numbered, Sent, Replied

LEMMA RunsStep ==
    ASSUME RunsLeft, NEW c \in Invocations, RunOK(c)',
           \A d \in Invocations \ {c} : pc'[d] = pc[d] /\ ran'[d] = ran[d]
    PROVE  RunsLeft'
<1>1. ASSUME NEW d \in Invocations \ {c} PROVE RunOK(d)'
 <2>1. RunOK(d) /\ pc'[d] = pc[d] /\ ran'[d] = ran[d]
   BY DEF RunsLeft
 <2>2. QED
   BY <2>1 DEF RunOK, Unsent
<1>2. QED
  BY <1>1 DEF RunsLeft

LEMMA KnownStep ==
    ASSUME ForwardTypeOK, Known, NEW c \in Invocations, LinkOK(c)',
           \A d \in Invocations \ {c} : pc'[d] = pc[d] /\ told'[d] = told[d] /\ names'[d] = names[d],
           pc[c] \in Settled => pc'[c] \in Settled,
           known' \subseteq known \cup {c}, c \in known' => pc'[c] \in Settled,
           \A s \in Openers : pc[s] \in Settled /\ heldBy[s] = 0 => heldBy'[s] = 0
    PROVE  Known'
<1>1. ASSUME NEW s \in known' PROVE pc'[s] \in Settled
 <2>1. CASE s = c
   BY <2>1
 <2>2. CASE s # c
  <3>1. s \in known /\ s \in Invocations
    BY <2>2, CallTypes DEF Openers, Invocations
  <3>2. QED
    BY <2>2, <3>1 DEF Known
 <2>3. QED
   BY <2>1, <2>2
<1>2. ASSUME NEW d \in Invocations \ {c} PROVE LinkOK(d)'
 <2>1. LinkOK(d) /\ pc'[d] = pc[d] /\ told'[d] = told[d] /\ names'[d] = names[d]
   BY DEF Known
 <2>2. ASSUME pc[d] \in {"command sent", "answered"}
       PROVE  names[d] \in Openers /\ pc[names[d]] \in Settled /\ pc'[names[d]] \in Settled
  <3>1. names[d] \in Openers /\ pc[names[d]] \in Settled
    BY <2>1, <2>2 DEF LinkOK
  <3>2. names[d] \in Invocations
    BY <3>1 DEF Openers, Invocations
  <3>3. pc'[names[d]] = pc[names[d]] \/ names[d] = c
    BY <3>2
  <3>4. QED
    BY <3>1, <3>3
 <2>3. (pc[d] = "answered" /\ d \in Closes) => heldBy'[names[d]] = 0
   BY <2>1, <2>2 DEF LinkOK
 <2>4. QED
   BY <2>1, <2>2, <2>3 DEF LinkOK
<1>3. QED
  BY <1>1, <1>2 DEF Known

-----------------------------------------------------------------------------
(* A call's step within its connection keeps the invariant of the calls.     *)
LEMMA CallKeeps ==
    ASSUME ForwardTypeOK, Numbered, RunsLeft, Known, NEW c \in Invocations, ForwardTypeOK', OtherCalls(c),
           conn' = conn, mine' = mine, wire' = wire, RunOK(c)', LinkOK(c)',
           \A d \in Invocations \ {c} : ran'[d] = ran[d],
           \A s \in Openers : heldBy'[s] <= conn,
           pc'[c] \in {pc[c], "walled", "done"} \/ mine[c] # 0,
           pc[c] \in Settled => pc'[c] \in Settled,
           known' \subseteq known \cup {c}, c \in known' => pc'[c] \in Settled,
           \A s \in Openers : pc[s] \in Settled /\ heldBy[s] = 0 => heldBy'[s] = 0
    PROVE  CallsOK'
<1>1. \A d \in Invocations \ {c} : pc'[d] = pc[d] /\ told'[d] = told[d] /\ names'[d] = names[d]
  BY DEF OtherCalls
<1>2. Numbered'
 <2>1. mine[c] # 0 => conn # 0
   BY CallTypes DEF Numbered
 <2>2. \A d \in Invocations : pc'[d] = pc[d] \/ pc'[d] \in {"walled", "done"} \/ (mine[d] # 0 /\ conn # 0)
   BY <1>1, <2>1
 <2>3. QED
   BY <2>2, NumberedStep
<1>3. RunsLeft'
  BY <1>1, RunsStep
<1>4. Known'
  BY <1>1, KnownStep
<1>5. QED
  BY <1>2, <1>3, <1>4 DEF CallsOK

LEMMA InvokeKeeps ==
    ASSUME ForwardAssumption, CallsOK, NEW c \in Invocations, Invoke(c)
    PROVE  CallsOK'
<1>1. ForwardTypeOK /\ Numbered /\ RunsLeft /\ Known
  BY DEF CallsOK
<1>2. ForwardTypeOK'
  BY <1>1, InvokeAt
<1>3. Numbered'
 <2>1. heldBy' = heldBy /\ \A d \in Invocations \ {c} : pc'[d] = pc[d]
   BY <1>1, InvokeAt DEF OtherCalls
 <2>2. CASE Opens(c)
   BY <1>1, <2>1, <2>2, OpensNumbered
 <2>3. CASE ~Opens(c)
  <3>1. conn' = conn /\ mine' = mine /\ wire' = wire
    BY <1>1, <2>3, InvokeAt DEF Same
  <3>2. pc'[c] = "walled" \/ (pc'[c] = "existing" /\ conn # 0)
    BY <1>1, <2>3, InvokeAt
  <3>3. ASSUME NEW d \in Invocations
        PROVE  /\ mine'[d] <= conn'
               /\ pc'[d] \in {"connecting", "account"} \cup Sent \cup Replied => mine'[d] # 0
               /\ pc'[d] = "existing" => conn' # 0
    BY <1>1, <2>1, <3>1, <3>2 DEF Numbered, Sent, Replied
  <3>4. QED
    BY <1>1, <2>1, <3>1, <3>3 DEF Numbered, Sent, Replied
 <2>4. QED
   BY <2>2, <2>3
<1>4. RunsLeft'
 <2>1. \A d \in Invocations \ {c} : pc'[d] = pc[d] /\ ran'[d] = ran[d]
   BY <1>1, InvokeAt DEF OtherCalls
 <2>2. RunOK(c)'
  <3>1. RunOK(c) /\ ran[c] \in 0..2
    BY <1>1, CallTypes DEF RunsLeft
  <3>2. QED
    BY <1>1, <3>1, InvokeAt DEF RunOK, Unsent, Sent, Replied, Openers, Invocations
 <2>3. QED
   BY <1>1, <2>1, <2>2, RunsStep
<1>5. Known'
 <2>1. \A d \in Invocations \ {c} : pc'[d] = pc[d] /\ told'[d] = told[d] /\ names'[d] = names[d]
   BY <1>1, InvokeAt DEF OtherCalls
 <2>2. pc[c] \in Settled => pc'[c] \in Settled
   BY <1>1, InvokeAt DEF Settled, Unsent, Sent, Replied
 <2>3. known' \subseteq known \cup {c} /\ (c \in known' => pc'[c] \in Settled)
   BY <1>1, <2>2, InvokeAt DEF Known, Settled
 <2>4. \A s \in Openers : pc[s] \in Settled /\ heldBy[s] = 0 => heldBy'[s] = 0
   BY <1>1, InvokeAt DEF Settled
 <2>5. LinkOK(c)'
  <3>1. LinkOK(c) /\ \A s \in known : pc[s] \in Settled
    BY <1>1 DEF Known
  <3>2. QED
    BY <1>1, <2>1, <2>2, <2>3, <3>1, CallTypes, InvokeAt DEF LinkOK, Settled, Openers, Invocations
 <2>6. QED
   BY <1>1, <2>1, <2>2, <2>3, <2>4, <2>5, KnownStep
<1>6. QED
  BY <1>2, <1>3, <1>4, <1>5 DEF CallsOK

LEMMA ReplayWallKeeps ==
    ASSUME ForwardAssumption, CallsOK, NEW c \in Invocations, ReplayWall(c)
    PROVE  CallsOK'
<1>1. ForwardTypeOK /\ Numbered /\ RunsLeft /\ Known
  BY DEF CallsOK
<1>2. /\ ForwardTypeOK' /\ OtherCalls(c) /\ conn' = conn /\ mine' = mine /\ wire' = wire
      /\ \A d \in Invocations \ {c} : ran'[d] = ran[d]
  BY <1>1, ReplayWallAt
<1>3. \A s \in Openers : heldBy'[s] <= conn
  BY <1>1, ReplayWallAt, CallTypes DEF Numbered
<1>4. pc'[c] \in {pc[c], "walled", "done"} \/ mine[c] # 0
  BY <1>1, ReplayWallAt DEF Numbered, Sent, Replied
<1>5. RunOK(c)'
 <2>1. RunOK(c) /\ ran[c] \in 0..2
   BY <1>1, CallTypes DEF RunsLeft
 <2>2. QED
   BY <1>1, <2>1, ReplayWallAt DEF RunOK, Unsent, Sent, Replied, Openers, Invocations
<1>6. /\ pc[c] \in Settled => pc'[c] \in Settled
      /\ known' \subseteq known \cup {c} /\ (c \in known' => pc'[c] \in Settled)
      /\ \A s \in Openers : pc[s] \in Settled /\ heldBy[s] = 0 => heldBy'[s] = 0
  BY <1>1, ReplayWallAt DEF Known, Settled, Unsent, Sent, Replied
<1>7. LinkOK(c)'
 <2>1. LinkOK(c) /\ \A s \in known : pc[s] \in Settled
   BY <1>1 DEF Known
 <2>2. QED
   BY <1>1, <1>2, <1>6, <2>1, CallTypes, ReplayWallAt DEF OtherCalls, LinkOK, Settled, Openers, Invocations
<1>8. QED
  BY <1>1, <1>2, <1>3, <1>4, <1>5, <1>6, <1>7, CallKeeps

LEMMA ExistingKeeps ==
    ASSUME ForwardAssumption, CallsOK, NEW c \in Invocations, Existing(c)
    PROVE  CallsOK'
<1>1. ForwardTypeOK /\ Numbered /\ RunsLeft /\ Known
  BY DEF CallsOK
<1>2. ForwardTypeOK'
  BY <1>1, ExistingAt
<1>3. Numbered'
 <2>1. heldBy' = heldBy /\ \A d \in Invocations \ {c} : pc'[d] = pc[d]
   BY <1>1, ExistingAt DEF OtherCalls
 <2>2. CASE Opens(c)
   BY <1>1, <2>1, <2>2, OpensNumbered
 <2>3. CASE Joins(c)
  <3>1. conn' = conn /\ wire' = wire /\ mine'[c] # 0 /\ \A d \in Invocations \ {c} : mine'[d] = mine[d]
    BY <2>3 DEF Joins
  <3>2. mine'[c] = conn /\ conn # 0 /\ conn \in Nat
    BY <1>1, <2>3, CallTypes DEF Joins
  <3>3. ASSUME NEW d \in Invocations
        PROVE  /\ mine'[d] <= conn'
               /\ pc'[d] \in {"connecting", "account"} \cup Sent \cup Replied => mine'[d] # 0
               /\ pc'[d] = "existing" => conn' # 0
    BY <1>1, <2>1, <3>1, <3>2 DEF Numbered
  <3>4. QED
    BY <1>1, <2>1, <3>1, <3>3 DEF Numbered, Sent, Replied
 <2>4. QED
   BY <1>1, <2>2, <2>3, ExistingAt
<1>4. RunsLeft'
 <2>1. \A d \in Invocations \ {c} : pc'[d] = pc[d] /\ ran'[d] = ran[d]
   BY <1>1, ExistingAt DEF OtherCalls
 <2>2. RunOK(c)'
  <3>1. RunOK(c) /\ ran[c] \in 0..2
    BY <1>1, CallTypes DEF RunsLeft
  <3>2. QED
    BY <1>1, <3>1, ExistingAt DEF RunOK, Unsent, Sent, Replied, Openers, Invocations
 <2>3. QED
   BY <1>1, <2>1, <2>2, RunsStep
<1>5. Known'
 <2>1. \A d \in Invocations \ {c} : pc'[d] = pc[d] /\ told'[d] = told[d] /\ names'[d] = names[d]
   BY <1>1, ExistingAt DEF OtherCalls
 <2>2. pc[c] \in Settled => pc'[c] \in Settled
   BY <1>1, ExistingAt DEF Settled, Unsent, Sent, Replied
 <2>3. known' \subseteq known \cup {c} /\ (c \in known' => pc'[c] \in Settled)
   BY <1>1, <2>2, ExistingAt DEF Known, Settled
 <2>4. \A s \in Openers : pc[s] \in Settled /\ heldBy[s] = 0 => heldBy'[s] = 0
   BY <1>1, ExistingAt DEF Settled
 <2>5. LinkOK(c)'
  <3>1. LinkOK(c) /\ \A s \in known : pc[s] \in Settled
    BY <1>1 DEF Known
  <3>2. QED
    BY <1>1, <2>1, <2>2, <2>3, <3>1, CallTypes, ExistingAt DEF LinkOK, Settled, Openers, Invocations
 <2>6. QED
   BY <1>1, <2>1, <2>2, <2>3, <2>4, <2>5, KnownStep
<1>6. QED
  BY <1>2, <1>3, <1>4, <1>5 DEF CallsOK

LEMMA ConnectedKeeps ==
    ASSUME ForwardAssumption, CallsOK, NEW c \in Invocations, Connected(c)
    PROVE  CallsOK'
<1>1. ForwardTypeOK /\ Numbered /\ RunsLeft /\ Known
  BY DEF CallsOK
<1>2. /\ ForwardTypeOK' /\ OtherCalls(c) /\ conn' = conn /\ mine' = mine /\ wire' = wire
      /\ \A d \in Invocations \ {c} : ran'[d] = ran[d]
  BY <1>1, ConnectedAt
<1>3. \A s \in Openers : heldBy'[s] <= conn
  BY <1>1, ConnectedAt, CallTypes DEF Numbered
<1>4. pc'[c] \in {pc[c], "walled", "done"} \/ mine[c] # 0
  BY <1>1, ConnectedAt DEF Numbered, Sent, Replied
<1>5. RunOK(c)'
 <2>1. RunOK(c) /\ ran[c] \in 0..2
   BY <1>1, CallTypes DEF RunsLeft
 <2>2. QED
   BY <1>1, <2>1, ConnectedAt DEF RunOK, Unsent, Sent, Replied, Openers, Invocations
<1>6. /\ pc[c] \in Settled => pc'[c] \in Settled
      /\ known' \subseteq known \cup {c} /\ (c \in known' => pc'[c] \in Settled)
      /\ \A s \in Openers : pc[s] \in Settled /\ heldBy[s] = 0 => heldBy'[s] = 0
  BY <1>1, ConnectedAt DEF Known, Settled, Unsent, Sent, Replied
<1>7. LinkOK(c)'
 <2>1. LinkOK(c) /\ \A s \in known : pc[s] \in Settled
   BY <1>1 DEF Known
 <2>2. QED
   BY <1>1, <1>2, <1>6, <2>1, CallTypes, ConnectedAt DEF OtherCalls, LinkOK, Settled, Openers, Invocations
<1>8. QED
  BY <1>1, <1>2, <1>3, <1>4, <1>5, <1>6, <1>7, CallKeeps

LEMMA DispatchKeeps ==
    ASSUME ForwardAssumption, CallsOK, NEW c \in Invocations, Dispatch(c)
    PROVE  CallsOK'
<1>1. ForwardTypeOK /\ Numbered /\ RunsLeft /\ Known
  BY DEF CallsOK
<1>2. /\ ForwardTypeOK' /\ OtherCalls(c) /\ conn' = conn /\ mine' = mine /\ wire' = wire
      /\ \A d \in Invocations \ {c} : ran'[d] = ran[d]
  BY <1>1, DispatchAt
<1>3. \A s \in Openers : heldBy'[s] <= conn
  BY <1>1, DispatchAt, CallTypes DEF Numbered
<1>4. pc'[c] \in {pc[c], "walled", "done"} \/ mine[c] # 0
  BY <1>1, DispatchAt DEF Numbered, Sent, Replied
<1>5. RunOK(c)'
 <2>1. RunOK(c) /\ ran[c] \in 0..2
   BY <1>1, CallTypes DEF RunsLeft
 <2>2. /\ pc[c] = "account"
       /\ ran' = ran
       /\ \/ pc'[c] = "open sent" /\ c \in Openers
          \/ pc'[c] = "command sent" /\ c \notin Openers
          \/ pc'[c] = "done"
   BY <1>1, <2>1, DispatchAt DEF RunOK
 <2>3. /\ c \in Openers /\ c \notin Starts => c \in Drives
       /\ c \in Starts => c \in Openers
   BY DEF Openers
 <2>4. CASE pc'[c] = "open sent"
   BY <2>1, <2>2, <2>3, <2>4 DEF RunOK, Unsent
 <2>5. CASE pc'[c] = "command sent"
   BY <2>1, <2>2, <2>3, <2>5 DEF RunOK, Unsent
 <2>6. CASE pc'[c] = "done"
   BY <2>1, <2>2, <2>3, <2>6 DEF RunOK, Unsent
 <2>7. QED
   BY <2>2, <2>4, <2>5, <2>6
<1>6. /\ pc[c] \in Settled => pc'[c] \in Settled
      /\ known' \subseteq known \cup {c} /\ (c \in known' => pc'[c] \in Settled)
      /\ \A s \in Openers : pc[s] \in Settled /\ heldBy[s] = 0 => heldBy'[s] = 0
  BY <1>1, DispatchAt DEF Known, Settled, Unsent, Sent, Replied
<1>7. LinkOK(c)'
 <2>1. LinkOK(c) /\ \A s \in known : pc[s] \in Settled
   BY <1>1 DEF Known
 <2>2. QED
   BY <1>1, <1>2, <1>6, <2>1, CallTypes, DispatchAt DEF OtherCalls, LinkOK, Settled, Openers, Invocations
<1>8. QED
  BY <1>1, <1>2, <1>3, <1>4, <1>5, <1>6, <1>7, CallKeeps

LEMMA OpenedKeeps ==
    ASSUME ForwardAssumption, CallsOK, NEW c \in Invocations, Opened(c)
    PROVE  CallsOK'
<1>1. ForwardTypeOK /\ Numbered /\ RunsLeft /\ Known
  BY DEF CallsOK
<1>2. /\ ForwardTypeOK' /\ OtherCalls(c) /\ conn' = conn /\ mine' = mine /\ wire' = wire
      /\ \A d \in Invocations \ {c} : ran'[d] = ran[d]
  BY <1>1, OpenedAt
<1>3. \A s \in Openers : heldBy'[s] <= conn
  BY <1>1, OpenedAt, CallTypes DEF Numbered
<1>4. pc'[c] \in {pc[c], "walled", "done"} \/ mine[c] # 0
  BY <1>1, OpenedAt DEF Numbered, Sent, Replied
<1>5. RunOK(c)'
 <2>1. RunOK(c) /\ ran[c] \in 0..2
   BY <1>1, CallTypes DEF RunsLeft
 <2>2. /\ pc[c] = "opened"
       /\ ran' = ran
       /\ \/ pc'[c] = "done"
          \/ pc'[c] = "command sent" /\ c \notin Starts
       /\ ran[c] \in {0, 1} /\ c \in Openers
   BY <1>1, <2>1, OpenedAt DEF RunOK
 <2>3. /\ c \in Openers /\ c \notin Starts => c \in Drives
       /\ c \in Starts => c \in Openers
   BY DEF Openers
 <2>4. CASE pc'[c] = "done"
   BY <2>1, <2>2, <2>3, <2>4 DEF RunOK, Unsent
 <2>5. CASE pc'[c] = "command sent"
   BY <2>1, <2>2, <2>3, <2>5 DEF RunOK, Unsent
 <2>6. QED
   BY <2>2, <2>4, <2>5
<1>6. /\ pc[c] \in Settled => pc'[c] \in Settled
      /\ known' \subseteq known \cup {c} /\ (c \in known' => pc'[c] \in Settled)
      /\ \A s \in Openers : pc[s] \in Settled /\ heldBy[s] = 0 => heldBy'[s] = 0
  BY <1>1, OpenedAt DEF Known, Settled, Unsent, Sent, Replied
<1>7. LinkOK(c)'
 <2>1. LinkOK(c) /\ \A s \in known : pc[s] \in Settled
   BY <1>1 DEF Known
 <2>2. c \in Openers /\ (told[c] = "nothing")
   BY <1>1, <2>1, OpenedAt DEF LinkOK, RunsLeft, RunOK
 <2>3. \/ pc'[c] = "done"
       \/ pc'[c] = "command sent" /\ names'[c] = c /\ told' = told
   BY <1>1, OpenedAt
 <2>4. QED
   BY <2>2, <2>3 DEF LinkOK, Settled
<1>8. QED
  BY <1>1, <1>2, <1>3, <1>4, <1>5, <1>6, <1>7, CallKeeps

LEMMA DeclinedKeeps ==
    ASSUME ForwardAssumption, CallsOK, NEW c \in Invocations, Declined(c)
    PROVE  CallsOK'
<1>1. ForwardTypeOK /\ Numbered /\ RunsLeft /\ Known
  BY DEF CallsOK
<1>2. /\ ForwardTypeOK' /\ OtherCalls(c) /\ conn' = conn /\ mine' = mine /\ wire' = wire
      /\ \A d \in Invocations \ {c} : ran'[d] = ran[d]
  BY <1>1, DeclinedAt
<1>3. \A s \in Openers : heldBy'[s] <= conn
  BY <1>1, DeclinedAt, CallTypes DEF Numbered
<1>4. pc'[c] \in {pc[c], "walled", "done"} \/ mine[c] # 0
  BY <1>1, DeclinedAt DEF Numbered, Sent, Replied
<1>5. RunOK(c)'
 <2>1. RunOK(c) /\ ran[c] \in 0..2
   BY <1>1, CallTypes DEF RunsLeft
 <2>2. QED
   BY <1>1, <2>1, DeclinedAt DEF RunOK, Unsent, Sent, Replied, Openers, Invocations
<1>6. /\ pc[c] \in Settled => pc'[c] \in Settled
      /\ known' \subseteq known \cup {c} /\ (c \in known' => pc'[c] \in Settled)
      /\ \A s \in Openers : pc[s] \in Settled /\ heldBy[s] = 0 => heldBy'[s] = 0
  BY <1>1, DeclinedAt DEF Known, Settled, Unsent, Sent, Replied
<1>7. LinkOK(c)'
 <2>1. LinkOK(c) /\ \A s \in known : pc[s] \in Settled
   BY <1>1 DEF Known
 <2>2. QED
   BY <1>1, <1>2, <1>6, <2>1, CallTypes, DeclinedAt DEF OtherCalls, LinkOK, Settled, Openers, Invocations
<1>8. QED
  BY <1>1, <1>2, <1>3, <1>4, <1>5, <1>6, <1>7, CallKeeps

LEMMA AnsweredKeeps ==
    ASSUME ForwardAssumption, CallsOK, NEW c \in Invocations, Answered(c)
    PROVE  CallsOK'
<1>1. ForwardTypeOK /\ Numbered /\ RunsLeft /\ Known
  BY DEF CallsOK
<1>2. /\ ForwardTypeOK' /\ OtherCalls(c) /\ conn' = conn /\ mine' = mine /\ wire' = wire
      /\ \A d \in Invocations \ {c} : ran'[d] = ran[d]
  BY <1>1, AnsweredAt
<1>3. \A s \in Openers : heldBy'[s] <= conn
  BY <1>1, AnsweredAt, CallTypes DEF Numbered
<1>4. pc'[c] \in {pc[c], "walled", "done"} \/ mine[c] # 0
  BY <1>1, AnsweredAt DEF Numbered, Sent, Replied
<1>5. RunOK(c)'
 <2>1. RunOK(c) /\ ran[c] \in 0..2
   BY <1>1, CallTypes DEF RunsLeft
 <2>2. QED
   BY <1>1, <2>1, AnsweredAt DEF RunOK, Unsent, Sent, Replied, Openers, Invocations
<1>6. /\ pc[c] \in Settled => pc'[c] \in Settled
      /\ known' \subseteq known \cup {c} /\ (c \in known' => pc'[c] \in Settled)
      /\ \A s \in Openers : pc[s] \in Settled /\ heldBy[s] = 0 => heldBy'[s] = 0
  BY <1>1, AnsweredAt DEF Known, Settled, Unsent, Sent, Replied
<1>7. LinkOK(c)'
 <2>1. LinkOK(c) /\ \A s \in known : pc[s] \in Settled
   BY <1>1 DEF Known
 <2>2. QED
   BY <1>1, <1>2, <1>6, <2>1, CallTypes, AnsweredAt DEF OtherCalls, LinkOK, Settled, Openers, Invocations
<1>8. QED
  BY <1>1, <1>2, <1>3, <1>4, <1>5, <1>6, <1>7, CallKeeps

LEMMA CancelKeeps ==
    ASSUME ForwardAssumption, CallsOK, NEW c \in Invocations, Cancel(c)
    PROVE  CallsOK'
<1>1. ForwardTypeOK /\ Numbered /\ RunsLeft /\ Known
  BY DEF CallsOK
<1>2. /\ ForwardTypeOK' /\ OtherCalls(c) /\ conn' = conn /\ mine' = mine /\ wire' = wire
      /\ \A d \in Invocations \ {c} : ran'[d] = ran[d]
  BY <1>1, CancelAt
<1>3. \A s \in Openers : heldBy'[s] <= conn
  BY <1>1, CancelAt, CallTypes DEF Numbered
<1>4. pc'[c] \in {pc[c], "walled", "done"} \/ mine[c] # 0
  BY <1>1, CancelAt DEF Numbered, Sent, Replied
<1>5. RunOK(c)'
 <2>1. RunOK(c) /\ ran[c] \in 0..2
   BY <1>1, CallTypes DEF RunsLeft
 <2>2. QED
   BY <1>1, <2>1, CancelAt DEF RunOK, Unsent, Sent, Replied, Openers, Invocations
<1>6. /\ pc[c] \in Settled => pc'[c] \in Settled
      /\ known' \subseteq known \cup {c} /\ (c \in known' => pc'[c] \in Settled)
      /\ \A s \in Openers : pc[s] \in Settled /\ heldBy[s] = 0 => heldBy'[s] = 0
  BY <1>1, CancelAt DEF Known, Settled, Unsent, Sent, Replied
<1>7. LinkOK(c)'
 <2>1. LinkOK(c) /\ \A s \in known : pc[s] \in Settled
   BY <1>1 DEF Known
 <2>2. QED
   BY <1>1, <1>2, <1>6, <2>1, CallTypes, CancelAt DEF OtherCalls, LinkOK, Settled, Openers, Invocations
<1>8. QED
  BY <1>1, <1>2, <1>3, <1>4, <1>5, <1>6, <1>7, CallKeeps

LEMMA OpenKeeps ==
    ASSUME ForwardAssumption, CallsOK, NEW c \in Invocations, Open(c)
    PROVE  CallsOK'
<1>1. ForwardTypeOK /\ Numbered /\ RunsLeft /\ Known
  BY DEF CallsOK
<1>2. /\ ForwardTypeOK' /\ OtherCalls(c) /\ conn' = conn /\ mine' = mine /\ wire' = wire
      /\ \A d \in Invocations \ {c} : ran'[d] = ran[d]
  BY <1>1, OpenAt
<1>3. \A s \in Openers : heldBy'[s] <= conn
 <2>1. heldBy'[c] \in {mine[c], heldBy[c]} /\ \A s \in Openers \ {c} : heldBy'[s] = heldBy[s]
   BY <1>1, OpenAt
 <2>2. \A s \in Openers : heldBy[s] <= conn
   BY <1>1 DEF Numbered
 <2>3. mine[c] <= conn
   BY <1>1 DEF Numbered
 <2>4. QED
   BY <2>1, <2>2, <2>3
<1>4. pc'[c] \in {pc[c], "walled", "done"} \/ mine[c] # 0
  BY <1>1, OpenAt DEF Numbered, Sent, Replied
<1>5. RunOK(c)'
 <2>1. RunOK(c) /\ ran[c] \in 0..2
   BY <1>1, CallTypes DEF RunsLeft
 <2>2. /\ pc[c] = "open sent"
       /\ c \in Openers
       /\ \/ pc'[c] = "opened" /\ ran'[c] = 1
          \/ pc'[c] = "refused" /\ ran'[c] = ran[c]
   BY <1>1, <2>1, OpenAt DEF RunOK
 <2>3. /\ c \in Openers /\ c \notin Starts => c \in Drives
       /\ c \in Starts => c \in Openers
   BY DEF Openers
 <2>4. CASE pc'[c] = "opened"
   BY <2>1, <2>2, <2>3, <2>4 DEF RunOK, Unsent
 <2>5. CASE pc'[c] = "refused"
   BY <2>1, <2>2, <2>3, <2>5 DEF RunOK, Unsent
 <2>6. QED
   BY <2>2, <2>4, <2>5
<1>6. /\ pc[c] \in Settled => pc'[c] \in Settled
      /\ known' \subseteq known \cup {c} /\ (c \in known' => pc'[c] \in Settled)
      /\ \A s \in Openers : pc[s] \in Settled /\ heldBy[s] = 0 => heldBy'[s] = 0
  BY <1>1, OpenAt DEF Known, Settled, Unsent, Sent, Replied
<1>7. LinkOK(c)'
 <2>1. LinkOK(c) /\ \A s \in known : pc[s] \in Settled
   BY <1>1 DEF Known
 <2>2. QED
   BY <1>1, <1>2, <1>6, <2>1, CallTypes, OpenAt DEF OtherCalls, LinkOK, Settled, Openers, Invocations
<1>8. QED
  BY <1>1, <1>2, <1>3, <1>4, <1>5, <1>6, <1>7, CallKeeps

LEMMA RunsKeeps ==
    ASSUME ForwardAssumption, CallsOK, NEW c \in Invocations, Runs(c)
    PROVE  CallsOK'
<1>1. ForwardTypeOK /\ Numbered /\ RunsLeft /\ Known
  BY DEF CallsOK
<1>2. /\ ForwardTypeOK' /\ OtherCalls(c) /\ conn' = conn /\ mine' = mine /\ wire' = wire
      /\ \A d \in Invocations \ {c} : ran'[d] = ran[d]
  BY <1>1, RunsAt
<1>3. \A s \in Openers : heldBy'[s] <= conn
 <2>1. \A s \in Openers : heldBy'[s] \in {heldBy[s], 0}
   BY <1>1, RunsAt
 <2>2. conn \in Nat /\ \A s \in Openers : heldBy[s] <= conn
   BY <1>1, CallTypes DEF Numbered
 <2>3. QED
   BY <2>1, <2>2
<1>4. pc'[c] \in {pc[c], "walled", "done"} \/ mine[c] # 0
  BY <1>1, RunsAt DEF Numbered, Sent, Replied
<1>5. RunOK(c)'
 <2>1. RunOK(c) /\ ran[c] \in 0..2
   BY <1>1, CallTypes DEF RunsLeft
 <2>2. /\ pc[c] = "command sent"
       /\ c \notin Starts
       /\ \/ pc'[c] = "answered" /\ ran'[c] = ran[c] + 1
          \/ pc'[c] = "done" /\ ran'[c] = ran[c]
       /\ ran[c] = 0 \/ (c \in Drives /\ ran[c] = 1)
   BY <1>1, <2>1, RunsAt DEF RunOK
 <2>3. /\ c \in Openers /\ c \notin Starts => c \in Drives
       /\ c \in Starts => c \in Openers
   BY DEF Openers
 <2>4. CASE pc'[c] = "answered"
  <3>1. ran'[c] = 1 \/ (c \in Drives /\ ran'[c] = 2)
   <4>1. ran'[c] = ran[c] + 1
     BY <2>2, <2>4
   <4>2. CASE ran[c] = 0
     BY <4>1, <4>2
   <4>3. CASE c \in Drives /\ ran[c] = 1
     BY <4>1, <4>3
   <4>4. QED
     BY <2>2, <4>2, <4>3
  <3>2. QED
    BY <2>2, <2>3, <2>4, <3>1 DEF RunOK, Unsent
 <2>5. CASE pc'[c] = "done"
   BY <2>1, <2>2, <2>3, <2>5 DEF RunOK, Unsent
 <2>6. QED
   BY <2>2, <2>4, <2>5
<1>6. /\ pc[c] \in Settled => pc'[c] \in Settled
      /\ known' \subseteq known \cup {c} /\ (c \in known' => pc'[c] \in Settled)
      /\ \A s \in Openers : pc[s] \in Settled /\ heldBy[s] = 0 => heldBy'[s] = 0
  BY <1>1, RunsAt DEF Known, Settled, Unsent, Sent, Replied
<1>7. LinkOK(c)'
 <2>1. LinkOK(c) /\ \A s \in known : pc[s] \in Settled
   BY <1>1 DEF Known
 <2>2. pc[c] = "command sent" /\ names' = names
       /\ \/ pc'[c] = "answered" /\ told' = told /\ (c \in Closes => heldBy'[names[c]] = 0)
          \/ pc'[c] = "done"
   BY <1>1, RunsAt
 <2>3. names[c] \in Openers /\ pc[names[c]] \in Settled /\ told[c] = "nothing" /\ names[c] \in Invocations
   BY <2>1, <2>2 DEF LinkOK, Openers, Invocations
 <2>4. pc'[names[c]] \in Settled
   BY <1>2, <1>6, <2>3 DEF OtherCalls
 <2>5. QED
   BY <2>2, <2>3, <2>4 DEF LinkOK
<1>8. QED
  BY <1>1, <1>2, <1>3, <1>4, <1>5, <1>6, <1>7, CallKeeps

LEMMA AbortedKeeps ==
    ASSUME ForwardAssumption, CallsOK, NEW c \in Invocations, Aborted(c)
    PROVE  CallsOK'
<1>1. ForwardTypeOK /\ Numbered /\ RunsLeft /\ Known
  BY DEF CallsOK
<1>2. /\ ForwardTypeOK' /\ OtherCalls(c) /\ conn' = conn /\ mine' = mine /\ wire' = wire
      /\ \A d \in Invocations \ {c} : ran'[d] = ran[d]
  BY <1>1, AbortedAt
<1>3. \A s \in Openers : heldBy'[s] <= conn
  BY <1>1, AbortedAt, CallTypes DEF Numbered
<1>4. pc'[c] \in {pc[c], "walled", "done"} \/ mine[c] # 0
  BY <1>1, AbortedAt DEF Numbered, Sent, Replied
<1>5. RunOK(c)'
 <2>1. RunOK(c) /\ ran[c] \in 0..2
   BY <1>1, CallTypes DEF RunsLeft
 <2>2. QED
   BY <1>1, <2>1, AbortedAt DEF RunOK, Unsent, Sent, Replied, Openers, Invocations
<1>6. /\ pc[c] \in Settled => pc'[c] \in Settled
      /\ known' \subseteq known \cup {c} /\ (c \in known' => pc'[c] \in Settled)
      /\ \A s \in Openers : pc[s] \in Settled /\ heldBy[s] = 0 => heldBy'[s] = 0
  BY <1>1, AbortedAt DEF Known, Settled, Unsent, Sent, Replied
<1>7. LinkOK(c)'
 <2>1. LinkOK(c) /\ \A s \in known : pc[s] \in Settled
   BY <1>1 DEF Known
 <2>2. QED
   BY <1>1, <1>2, <1>6, <2>1, CallTypes, AbortedAt DEF OtherCalls, LinkOK, Settled, Openers, Invocations
<1>8. QED
  BY <1>1, <1>2, <1>3, <1>4, <1>5, <1>6, <1>7, CallKeeps

LEMMA HandshakeKeeps ==
    ASSUME ForwardAssumption, CallsOK, NEW n \in Conns, Handshake(n)
    PROVE  CallsOK'
<1>1. ForwardTypeOK /\ Numbered /\ RunsLeft /\ Known
  BY DEF CallsOK
<1>2. ForwardTypeOK'
  BY <1>1, HandshakeAt
<1>3. Numbered'
 <2>1. conn' = conn /\ mine' = mine /\ heldBy' = heldBy /\ pc' = pc
   BY <1>1, HandshakeAt
 <2>2. \A k \in Conns : wire'[k] = "none" <=> wire[k] = "none"
   BY <1>1, HandshakeAt
 <2>3. \A s \in Openers : heldBy'[s] <= conn
   BY <1>1, <2>1 DEF Numbered
 <2>4. QED
   BY <1>1, <2>1, <2>2, <2>3, NumberedStep
<1>4. UNCHANGED <<pc, told, known, names, ran, heldBy>>
  BY <1>1, HandshakeAt
<1>5. RunsLeft' /\ Known'
  BY <1>1, <1>4 DEF RunsLeft, RunOK, Known, LinkOK
<1>6. QED
  BY <1>2, <1>3, <1>5 DEF CallsOK

LEMMA DropsKeeps ==
    ASSUME ForwardAssumption, CallsOK, NEW n \in Conns, Drops(n)
    PROVE  CallsOK'
<1>1. ForwardTypeOK /\ Numbered /\ RunsLeft /\ Known
  BY DEF CallsOK
<1>2. ForwardTypeOK'
  BY <1>1, DropsAt
<1>3. UNCHANGED <<conn, mine, known, names, ran, heldBy>>
  BY <1>1, DropsAt
<1>4. \A d \in Invocations : (pc'[d] = pc[d] /\ told'[d] = told[d]) \/ pc'[d] = "done"
  BY <1>1, DropsAt
<1>5. Numbered'
 <2>1. \A k \in Conns : wire'[k] = "none" <=> wire[k] = "none"
   BY <1>1, DropsAt
 <2>2. \A s \in Openers : heldBy'[s] <= conn
   BY <1>1, <1>3 DEF Numbered
 <2>3. QED
   BY <1>1, <1>3, <1>4, <2>1, <2>2, NumberedStep
<1>6. RunsLeft'
 <2>1. ASSUME NEW d \in Invocations PROVE RunOK(d)'
  <3>1. RunOK(d)
    BY <1>1 DEF RunsLeft
  <3>2. QED
    BY <1>3, <1>4, <3>1 DEF RunOK, Unsent
 <2>2. QED
   BY <2>1 DEF RunsLeft
<1>7. Known'
 <2>1. \A d \in Invocations : pc[d] \in Settled => pc'[d] \in Settled
   BY <1>4 DEF Settled
 <2>2. \A s \in known' : pc'[s] \in Settled
   BY <1>1, <1>3, <2>1, CallTypes DEF Known, Openers, Invocations
 <2>3. ASSUME NEW d \in Invocations PROVE LinkOK(d)'
  <3>1. LinkOK(d)
    BY <1>1 DEF Known
  <3>2. CASE pc'[d] = "done"
    BY <3>2 DEF LinkOK
  <3>3. CASE pc'[d] = pc[d] /\ told'[d] = told[d]
    BY <1>3, <2>1, <3>1, <3>3 DEF LinkOK, Openers, Invocations
  <3>4. QED
    BY <1>4, <3>2, <3>3
 <2>4. QED
   BY <2>2, <2>3 DEF Known
<1>8. QED
  BY <1>2, <1>5, <1>6, <1>7 DEF CallsOK

LEMMA LeaseEndsKeeps ==
    ASSUME ForwardAssumption, CallsOK, NEW n \in Conns, LeaseEnds(n)
    PROVE  CallsOK'
<1>1. ForwardTypeOK /\ Numbered /\ RunsLeft /\ Known
  BY DEF CallsOK
<1>2. ForwardTypeOK'
  BY <1>1, LeaseEndsAt
<1>3. /\ UNCHANGED <<conn, wire, pc, told, mine, known, names, ran>>
      /\ \A s \in Openers : heldBy'[s] = IF heldBy[s] = n THEN 0 ELSE heldBy[s]
  BY <1>1, LeaseEndsAt
<1>4. Numbered'
 <2>1. conn \in Nat /\ \A s \in Openers : heldBy[s] <= conn
   BY <1>1, CallTypes DEF Numbered
 <2>2. \A s \in Openers : heldBy'[s] <= conn
   BY <1>3, <2>1
 <2>3. QED
   BY <1>1, <1>3, <2>2, NumberedStep
<1>5. RunsLeft'
  BY <1>1, <1>3 DEF RunsLeft, RunOK
<1>6. Known'
  BY <1>1, <1>3 DEF Known, LinkOK
<1>7. QED
  BY <1>2, <1>4, <1>5, <1>6 DEF CallsOK

(* What the calls of every client keep to. *)
LEMMA CallsKeep ==
    ASSUME ForwardAssumption, CallsOK, ForwardNext
    PROVE  CallsOK'
<1>1. CASE \E c \in Invocations : CallRuns(c) \/ Cancel(c) \/ Serviced(c)
 <2>1. PICK c \in Invocations : CallRuns(c) \/ Cancel(c) \/ Serviced(c)
   BY <1>1
 <2>2. QED
   BY <2>1, InvokeKeeps, ReplayWallKeeps, ExistingKeeps, ConnectedKeeps, DispatchKeeps, OpenedKeeps,
      DeclinedKeeps, AnsweredKeeps, CancelKeeps, OpenKeeps, RunsKeeps, AbortedKeeps
      DEF CallRuns, Serviced
<1>2. CASE \E n \in Conns : Handshake(n) \/ Drops(n) \/ LeaseEnds(n)
  BY <1>2, HandshakeKeeps, DropsKeeps, LeaseEndsKeeps
<1>3. QED
  BY <1>1, <1>2 DEF ForwardNext

LEMMA CallsStart ==
    ASSUME ForwardAssumption, ForwardInit
    PROVE  CallsOK
<1>1. ForwardTypeOK
  BY DEF ForwardAssumption, ForwardInit, ForwardTypeOK
<1>2. Numbered
  BY DEF ForwardAssumption, ForwardInit, Numbered, Conns, Sent, Replied
<1>3. RunsLeft
  BY DEF ForwardInit, RunsLeft, RunOK
<1>4. Known
  BY DEF ForwardInit, Known, LinkOK
<1>5. QED
  BY <1>1, <1>2, <1>3, <1>4 DEF CallsOK

LEMMA CallsStutter ==
    ASSUME CallsOK, UNCHANGED forwardVars
    PROVE  CallsOK'
BY DEF CallsOK, ForwardTypeOK, Numbered, RunsLeft, RunOK, Known, LinkOK, forwardVars

(* No call is done twice, whatever becomes of its connection: a drive asks  *)
(* for two things, every other call for one (broker/operator-forward.ts).   *)
THEOREM CallsRunOnce == ForwardAssumption => (ForwardSpec => []NeverReplayed)
<1> SUFFICES ASSUME ForwardAssumption PROVE ForwardSpec => []NeverReplayed
  OBVIOUS
<1>1. ForwardInit => CallsOK
  BY CallsStart
<1>2. CallsOK /\ [ForwardNext]_forwardVars => CallsOK'
  BY CallsKeep, CallsStutter
<1>3. CallsOK => NeverReplayed
 <2>1. ASSUME CallsOK, NEW c \in Invocations PROVE ran[c] <= IF c \in Drives THEN 2 ELSE 1
  <3>1. ran[c] \in {0, 1} \/ (c \in Drives /\ ran[c] = 2)
    BY <2>1 DEF CallsOK, RunsLeft, RunOK
  <3>2. CASE c \in Drives
    BY <3>1, <3>2
  <3>3. CASE c \notin Drives
    BY <3>1, <3>3
  <3>4. QED
    BY <3>2, <3>3
 <2>2. QED
   BY <2>1 DEF NeverReplayed
<1>4. QED
  BY <1>1, <1>2, <1>3, PTL DEF ForwardSpec

-----------------------------------------------------------------------------
(* The turns of a call that touch no connection. *)
Turn(c) ==
    \/ ReplayWall(c) \/ Connected(c) \/ Dispatch(c) \/ Opened(c) \/ Declined(c)
    \/ Answered(c) \/ Cancel(c) \/ Open(c) \/ Runs(c) \/ Aborted(c)
Calm(c) ==
    /\ OtherCalls(c) /\ UNCHANGED <<conn, wire, mine, old, fresh>>
    /\ pc'[c] \notin {"idle", "walled", "existing", "connecting"}
    /\ pc'[c] = "account" => pc[c] = "connecting" /\ cancelled' = cancelled
    /\ cancelled' \in {cancelled, cancelled \cup {c}}
    /\ \A s \in Openers : \/ heldBy'[s] \in {0, heldBy[s]}
                          \/ s = c /\ heldBy'[s] = mine[c] /\ wire[mine[c]] = "up" /\ pc'[s] = "opened"
    /\ \A s \in Openers : heldBy'[s] # 0 /\ s \in known => s \in known' \/ (pc[c] = "connecting" /\ fresh[c])
    /\ \A s \in Openers : pc[s] = "opened" => pc'[s] = "opened" \/ s \in known'

LEMMA TurnIsCalm ==
    ASSUME ForwardAssumption, CallsOK, NEW c \in Invocations, Turn(c)
    PROVE  Calm(c)
<1>1. ForwardTypeOK /\ Numbered /\ Known /\ Openers \subseteq Invocations
  BY DEF CallsOK, Openers, Invocations
<1>2. CASE ReplayWall(c)
 <2>1. /\ OtherCalls(c) /\ pc[c] = "walled" /\ pc'[c] = "done"
       /\ UNCHANGED <<conn, wire, mine, old, fresh, cancelled, heldBy, known>>
   BY <1>1, <1>2, ReplayWallAt
 <2>2. QED
   BY <1>1, <2>1 DEF Calm, OtherCalls
<1>3. CASE Connected(c)
 <2>1. /\ OtherCalls(c) /\ pc[c] = "connecting" /\ pc'[c] \in {"done", "account"}
       /\ UNCHANGED <<conn, wire, mine, old, fresh, cancelled, heldBy>>
       /\ known' = known \/ fresh[c]
   BY <1>1, <1>3, ConnectedAt
 <2>2. QED
   BY <1>1, <2>1 DEF Calm, OtherCalls
<1>4. CASE Dispatch(c)
 <2>1. /\ OtherCalls(c) /\ pc[c] = "account" /\ pc'[c] \in {"done", "open sent", "command sent"}
       /\ UNCHANGED <<conn, wire, mine, old, fresh, cancelled, heldBy, known>>
   BY <1>1, <1>4, DispatchAt
 <2>2. QED
   BY <1>1, <2>1 DEF Calm, OtherCalls
<1>5. CASE Opened(c)
 <2>1. /\ OtherCalls(c) /\ pc'[c] \in {"done", "command sent"}
       /\ UNCHANGED <<conn, wire, mine, old, fresh, cancelled, heldBy>> /\ known' = known \cup {c}
   BY <1>1, <1>5, OpenedAt
 <2>2. QED
   BY <1>1, <2>1 DEF Calm, OtherCalls
<1>6. CASE Declined(c)
 <2>1. /\ OtherCalls(c) /\ pc[c] = "refused" /\ pc'[c] = "done"
       /\ UNCHANGED <<conn, wire, mine, old, fresh, cancelled, heldBy, known>>
   BY <1>1, <1>6, DeclinedAt
 <2>2. QED
   BY <1>1, <2>1 DEF Calm, OtherCalls
<1>7. CASE Answered(c)
 <2>1. /\ OtherCalls(c) /\ pc[c] = "answered" /\ pc'[c] = "done"
       /\ UNCHANGED <<conn, wire, mine, old, fresh, cancelled, heldBy>>
       /\ known' = IF c \in Closes THEN known \ {names[c]} ELSE known
   BY <1>1, <1>7, AnsweredAt
 <2>2. c \in Closes => heldBy[names[c]] = 0
   BY <1>1, <2>1 DEF Known, LinkOK
 <2>3. \A s \in Openers : heldBy'[s] # 0 /\ s \in known => s \in known'
   BY <2>1, <2>2
 <2>4. QED
   BY <1>1, <2>1, <2>3 DEF Calm, OtherCalls
<1>8. CASE Cancel(c)
 <2>1. /\ OtherCalls(c) /\ pc[c] \in Unsent \cup Sent \cup Replied
       /\ UNCHANGED <<conn, wire, mine, old, fresh, heldBy, known>> /\ cancelled' = cancelled \cup {c}
       /\ (pc[c] \in Unsent /\ pc'[c] = "done") \/ (pc[c] \notin Unsent /\ pc' = pc)
   BY <1>1, <1>8, CancelAt
 <2>2. pc'[c] \in {"done"} \cup Sent \cup Replied /\ (pc[c] = "opened" => pc'[c] = "opened")
   BY <2>1 DEF Unsent
 <2>3. QED
   BY <1>1, <2>1, <2>2 DEF Calm, OtherCalls, Sent, Replied
<1>9. CASE Open(c)
 <2>1. /\ OtherCalls(c) /\ pc[c] = "open sent" /\ pc'[c] \in {"opened", "refused"}
       /\ UNCHANGED <<conn, wire, mine, old, fresh, cancelled, known>>
       /\ wire[mine[c]] = "up" /\ \A s \in Openers \ {c} : heldBy'[s] = heldBy[s]
       /\ (pc'[c] = "opened" /\ heldBy'[c] = mine[c]) \/ heldBy' = heldBy
   BY <1>1, <1>9, OpenAt
 <2>2. QED
   BY <1>1, <2>1 DEF Calm, OtherCalls
<1>10. CASE Runs(c)
 <2>1. /\ OtherCalls(c) /\ pc[c] = "command sent" /\ pc'[c] \in {"answered", "done"}
       /\ UNCHANGED <<conn, wire, mine, old, fresh, cancelled, known>>
       /\ \A s \in Openers : heldBy'[s] \in {heldBy[s], 0}
   BY <1>1, <1>10, RunsAt
 <2>2. QED
   BY <1>1, <2>1 DEF Calm, OtherCalls
<1>11. CASE Aborted(c)
 <2>1. /\ OtherCalls(c) /\ pc[c] \in Sent /\ pc'[c] = "done"
       /\ UNCHANGED <<conn, wire, mine, old, fresh, cancelled, heldBy, known>>
   BY <1>1, <1>11, AbortedAt
 <2>2. QED
   BY <1>1, <2>1 DEF Calm, OtherCalls, Sent
<1>12. QED
  BY <1>2, <1>3, <1>4, <1>5, <1>6, <1>7, <1>8, <1>9, <1>10, <1>11 DEF Turn

-----------------------------------------------------------------------------
(* Every step keeps what is waiting in its place. *)
LEMMA OthersWait ==
    ASSUME ForwardTypeOK, Prepared, NEW c \in Invocations, OtherCalls(c), conn' \in {conn, conn + 1},
           cancelled' \subseteq cancelled \cup {c}, PrepOK(c)', StoppedOK(c)'
    PROVE  Prepared'
<1>1. ASSUME NEW d \in Invocations \ {c} PROVE PrepOK(d)' /\ StoppedOK(d)'
 <2>1. PrepOK(d) /\ StoppedOK(d) /\ d \in Invocations
   BY DEF Prepared
 <2>2. pc'[d] = pc[d] /\ old'[d] = old[d] /\ fresh'[d] = fresh[d] /\ (d \in cancelled' => d \in cancelled)
   BY DEF OtherCalls
 <2>3. conn \in Nat /\ old[d] \in Nat
   BY <2>1, CallTypes
 <2>4. PrepOK(d)'
   BY <2>1, <2>2, <2>3 DEF PrepOK
 <2>5. StoppedOK(d)'
   BY <2>1, <2>2 DEF StoppedOK, Unsent
 <2>6. QED
   BY <2>4, <2>5
<1>2. QED
  BY <1>1 DEF Prepared

LEMMA CallsWait ==
    ASSUME ForwardAssumption, CallsOK, Prepared, ForwardNext
    PROVE  Prepared'
<1>1. ForwardTypeOK /\ Numbered
  BY DEF CallsOK
<1>2. ASSUME NEW c \in Invocations, Invoke(c) PROVE Prepared'
 <2>1. /\ OtherCalls(c) /\ pc[c] = "idle" /\ fresh' = fresh /\ cancelled' = cancelled
       /\ \/ pc'[c] = "walled" /\ conn' = conn
          \/ pc'[c] = "existing" /\ conn # 0 /\ old'[c] = conn /\ conn' = conn
          \/ pc'[c] = "connecting" /\ conn' = conn + 1
   BY <1>1, <1>2, InvokeAt DEF Same, Opens
 <2>2. ~fresh[c] /\ c \notin cancelled /\ conn \in Nat
   BY <1>1, <2>1, CallTypes DEF Prepared, PrepOK, StoppedOK
 <2>3. PrepOK(c)' /\ StoppedOK(c)'
   BY <2>1, <2>2 DEF PrepOK, StoppedOK
 <2>4. QED
   BY <1>1, <2>1, <2>3, OthersWait
<1>3. ASSUME NEW c \in Invocations, Existing(c) PROVE Prepared'
 <2>1. /\ OtherCalls(c) /\ pc[c] = "existing" /\ pc'[c] = "connecting" /\ cancelled' = cancelled
       /\ conn' \in {conn, conn + 1}
   BY <1>1, <1>3, ExistingAt DEF Joins, Opens
 <2>2. c \notin cancelled
   BY <2>1 DEF Prepared, StoppedOK, Unsent
 <2>3. PrepOK(c)' /\ StoppedOK(c)'
   BY <2>1, <2>2 DEF PrepOK, StoppedOK
 <2>4. QED
   BY <1>1, <2>1, <2>3, OthersWait
<1>4. ASSUME NEW c \in Invocations, Turn(c) PROVE Prepared'
 <2>1. Calm(c)
   BY <1>4, TurnIsCalm
 <2>2. PrepOK(c)'
   BY <2>1 DEF Calm, PrepOK
 <2>3. StoppedOK(c)'
  <3>1. pc[c] = "connecting" => c \notin cancelled
    BY DEF Prepared, StoppedOK, Unsent
  <3>2. QED
    BY <2>1, <3>1 DEF Calm, StoppedOK, Unsent
 <2>4. QED
   BY <1>1, <2>1, <2>2, <2>3, OthersWait DEF Calm
<1>5. ASSUME NEW n \in Conns, Handshake(n) \/ Drops(n) \/ LeaseEnds(n) PROVE Prepared'
 <2>1. UNCHANGED <<conn, old, fresh, cancelled>> /\ \A c \in Invocations : pc'[c] \in {pc[c], "done"}
  <3>1. CASE Handshake(n) \/ LeaseEnds(n)
    BY <1>1, <3>1, HandshakeAt, LeaseEndsAt
  <3>2. CASE Drops(n)
    BY <1>1, <3>2, DropsAt
  <3>3. QED
    BY <1>5, <3>1, <3>2
 <2>2. QED
   BY <2>1 DEF Prepared, PrepOK, StoppedOK, Unsent
<1>6. QED
  BY <1>2, <1>3, <1>4, <1>5 DEF ForwardNext, CallRuns, Serviced, Turn

-----------------------------------------------------------------------------
(* What has raced has raced for good, and until then every step keeps the    *)
(* order.                                                                   *)
LEMMA Recorded ==
    ASSUME ForwardTypeOK, Prepared, NEW c \in Invocations, OtherCalls(c),
           pc[c] \in {"idle", "existing"} \/ (old'[c] = old[c] /\ fresh'[c] = fresh[c])
    PROVE  /\ \A d \in Invocations : fresh[d] => fresh'[d] /\ old'[d] = old[d]
           /\ Raced => Raced'
<1>1. ASSUME NEW d \in Invocations, fresh[d] PROVE fresh'[d] /\ old'[d] = old[d]
 <2>1. CASE d = c
   BY <1>1, <2>1 DEF Prepared, PrepOK
 <2>2. CASE d # c
   BY <1>1, <2>2 DEF OtherCalls
 <2>3. QED
   BY <2>1, <2>2
<1>2. ASSUME Raced PROVE Raced'
 <2>1. PICK d \in Invocations, e \in Invocations : d # e /\ fresh[d] /\ fresh[e] /\ old[d] = old[e]
   BY <1>2 DEF Raced
 <2>2. fresh'[d] /\ fresh'[e] /\ old'[d] = old'[e]
   BY <1>1, <2>1
 <2>3. QED
   BY <2>1, <2>2 DEF Raced
<1>3. QED
  BY <1>1, <1>2

LEMMA TurnOrders ==
    ASSUME ForwardAssumption, CallsOK, Prepared, InOrder, NEW c \in Invocations, Turn(c)
    PROVE  InOrder'
<1>1. ForwardTypeOK /\ Numbered /\ Openers \subseteq Invocations
  BY DEF CallsOK, Openers, Invocations
<1>2. Calm(c)
  BY TurnIsCalm
<1>3. UNCHANGED <<conn, wire, mine, old, fresh>>
  BY <1>2 DEF Calm
<1>4. OneLive' /\ Replaced'
  BY <1>3 DEF InOrder, OneLive, Replaced
<1>5. ASSUME NEW d \in Invocations PROVE FreshOK(d)'
 <2> SUFFICES ASSUME pc'[d] = "connecting", fresh'[d]
              PROVE  /\ mine'[d] = conn'
                     /\ \A s \in Openers : heldBy'[s] # conn'
                     /\ \A e \in Invocations \ {d} : mine'[e] # conn'
   BY DEF FreshOK
 <2>1. d # c /\ pc[d] = "connecting" /\ fresh[d]
   BY <1>2, <1>3 DEF Calm, OtherCalls
 <2>2. /\ mine[d] = conn /\ \A s \in Openers : heldBy[s] # conn
       /\ \A e \in Invocations \ {d} : mine[e] # conn
   BY <2>1 DEF InOrder, FreshOK
 <2>3. conn # 0
   BY <1>1, <2>1, <2>2 DEF Numbered
 <2>4. \A s \in Openers : heldBy'[s] # conn
   BY <1>2, <2>1, <2>2, <2>3 DEF Calm
 <2>5. QED
   BY <1>3, <2>2, <2>4
<1>6. ASSUME NEW s \in Openers PROVE HeldOK(s)'
 <2> SUFFICES ASSUME heldBy'[s] # 0
              PROVE  /\ wire[heldBy'[s]] \in {"up", "down"}
                     /\ wire[heldBy'[s]] = "up" => s \in known' \/ pc'[s] = "opened"
   BY <1>3 DEF HeldOK
 <2>1. CASE s = c /\ heldBy'[s] = mine[c] /\ wire[mine[c]] = "up" /\ pc'[s] = "opened"
   BY <2>1
 <2>2. CASE heldBy'[s] = heldBy[s]
  <3>1. /\ wire[heldBy[s]] \in {"up", "down"}
        /\ wire[heldBy[s]] = "up" => s \in known \/ pc[s] = "opened"
    BY <2>2 DEF InOrder, HeldOK
  <3>2. ASSUME wire[heldBy[s]] = "up", s \in known PROVE s \in known'
   <4>1. heldBy[s] \in Conns
     BY <1>1, <2>2, CallTypes DEF Conns
   <4>2. heldBy[s] = conn
     BY <3>2, <4>1 DEF InOrder, OneLive
   <4>3. ~(pc[c] = "connecting" /\ fresh[c])
     BY <4>2 DEF InOrder, FreshOK
   <4>4. QED
     BY <1>2, <3>2, <4>3 DEF Calm
  <3>3. pc[s] = "opened" => pc'[s] = "opened" \/ s \in known'
    BY <1>2 DEF Calm
  <3>4. QED
    BY <2>2, <3>1, <3>2, <3>3
 <2>3. QED
   BY <1>2, <2>1, <2>2 DEF Calm
<1>7. QED
  BY <1>4, <1>5, <1>6 DEF InOrder

(* A new connection is the only live one, and nothing is on it yet. *)
LEMMA OpensOrder ==
    ASSUME ForwardAssumption, CallsOK, InOrder, NEW c \in Invocations, Opens(c), OtherCalls(c),
           \A n \in Conns : wire[n] \notin {"opening", "up"}, Replaced',
           \A d \in Invocations \ {c} : ~(pc[d] = "connecting" /\ fresh[d]),
           pc[c] # "opened", heldBy' = heldBy, known' = known
    PROVE  InOrder'
<1>1. ForwardTypeOK /\ Numbered
  BY DEF CallsOK
<1>2. /\ conn \in Nat /\ conn' = conn + 1 /\ conn' \in Conns /\ mine'[c] = conn'
      /\ mine \in [Invocations -> 0..MaxConns] /\ heldBy \in [Openers -> 0..MaxConns]
  BY <1>1, CallTypes DEF Opens
<1>3. OneLive'
  BY DEF Opens, OneLive
<1>4. \A s \in Openers : heldBy[s] \in Nat /\ heldBy[s] <= conn /\ heldBy[s] # conn'
 <2>1. \A s \in Openers : heldBy[s] \in Nat /\ heldBy[s] <= conn
   BY <1>1, <1>2 DEF Numbered
 <2>2. QED
   BY <1>2, <2>1
<1>5. \A d \in Invocations \ {c} : mine'[d] # conn'
 <2>1. \A d \in Invocations : mine[d] \in Nat /\ mine[d] <= conn
   BY <1>1, <1>2 DEF Numbered
 <2>2. \A d \in Invocations \ {c} : mine'[d] = mine[d]
   BY DEF Opens
 <2>3. QED
   BY <1>2, <2>1, <2>2
<1>6. ASSUME NEW d \in Invocations PROVE FreshOK(d)'
 <2>1. CASE d = c
   BY <1>2, <1>4, <1>5, <2>1 DEF FreshOK
 <2>2. CASE d # c
   BY <2>2 DEF FreshOK, OtherCalls
 <2>3. QED
   BY <2>1, <2>2
<1>7. ASSUME NEW s \in Openers PROVE HeldOK(s)'
 <2> SUFFICES ASSUME heldBy[s] # 0 PROVE wire'[heldBy[s]] = "down"
   BY DEF HeldOK
 <2>1. heldBy[s] \in Conns /\ wire[heldBy[s]] \in {"up", "down"}
   BY <1>2 DEF Conns, InOrder, HeldOK
 <2>2. wire[heldBy[s]] = "down"
   BY <2>1
 <2>3. QED
   BY <1>4, <2>1, <2>2 DEF Opens
<1>8. QED
  BY <1>3, <1>6, <1>7 DEF InOrder

LEMMA InvokeOrders ==
    ASSUME ForwardAssumption, CallsOK, Prepared, InOrder, NEW c \in Invocations, Invoke(c)
    PROVE  InOrder' /\ (Raced => Raced')
<1>1. ForwardTypeOK /\ Numbered /\ Openers \subseteq Invocations
  BY DEF CallsOK, Openers, Invocations
<1>2. /\ pc[c] = "idle" /\ OtherCalls(c) /\ UNCHANGED <<heldBy, known, fresh>>
      /\ \/ pc'[c] \in {"walled", "existing"} /\ Same
         \/ pc'[c] = "connecting" /\ conn = 0 /\ Opens(c)
  BY <1>1, InvokeAt
<1>3. \A d \in Invocations : fresh[d] => fresh'[d] /\ old'[d] = old[d]
  BY <1>1, <1>2, Recorded
<1>4. CASE conn = 0 /\ Opens(c)
 <2>1. \A n \in Conns : wire[n] = "none"
   BY <1>1, <1>4 DEF Numbered, Conns
 <2>2. Replaced'
   BY <1>4 DEF Opens, Replaced, Conns
 <2>3. ASSUME NEW d \in Invocations PROVE pc[d] # "connecting"
  <3>1. mine[d] <= 0 /\ mine[d] \in Nat
    BY <1>1, <1>4, CallTypes DEF Numbered
  <3>2. mine[d] = 0
    BY <3>1
  <3>3. QED
    BY <1>1, <3>2 DEF Numbered
 <2>4. QED
   BY <1>1, <1>2, <1>4, <2>1, <2>2, <2>3, OpensOrder, Recorded
<1>5. CASE pc'[c] \in {"walled", "existing"} /\ Same
 <2>1. conn' = conn /\ wire' = wire /\ mine' = mine
   BY <1>5 DEF Same
 <2>2. OneLive'
   BY <2>1 DEF InOrder, OneLive
 <2>3. Replaced'
   BY <1>3, <2>1 DEF InOrder, Replaced
 <2>4. \A d \in Invocations : pc'[d] = "connecting" => pc[d] = "connecting"
   BY <1>2, <1>5 DEF OtherCalls
 <2>5. \A d \in Invocations : FreshOK(d)'
   BY <1>2, <2>1, <2>4 DEF InOrder, FreshOK
 <2>6. \A s \in Openers : HeldOK(s)'
   BY <1>1, <1>2, <2>1 DEF InOrder, HeldOK, OtherCalls
 <2>7. QED
   BY <1>1, <1>2, <2>2, <2>3, <2>5, <2>6, Recorded DEF InOrder
<1>6. QED
  BY <1>2, <1>4, <1>5

(* A call that replaces a connection already replaced makes a race of it;   *)
(* otherwise it found the process's own.                                    *)
LEMMA ExistingOrders ==
    ASSUME ForwardAssumption, CallsOK, Prepared, InOrder, NEW c \in Invocations, Existing(c)
    PROVE  (~Raced' => InOrder') /\ (Raced => Raced')
<1>1. ForwardTypeOK /\ Numbered /\ Openers \subseteq Invocations
  BY DEF CallsOK, Openers, Invocations
<1>2. /\ pc[c] = "existing" /\ pc'[c] = "connecting" /\ wire[old[c]] # "opening" /\ OtherCalls(c)
      /\ Maker(old[c]) = {} /\ (fresh'[c] <=> wire[old[c]] # "up")
      /\ UNCHANGED <<heldBy, known, old>>
  BY <1>1, ExistingAt
<1>3. Raced => Raced'
  BY <1>1, <1>2, Recorded
<1>4. \A d \in Invocations : fresh[d] => fresh'[d] /\ old'[d] = old[d]
  BY <1>1, <1>2, Recorded
<1>5. /\ ~fresh[c] /\ old[c] \in Conns /\ old[c] \in Nat /\ conn \in Nat /\ old[c] <= conn
  BY <1>1, <1>2, CallTypes DEF Prepared, PrepOK, Conns
<1>6. old[c] = conn => \A d \in Invocations : ~(pc[d] = "connecting" /\ fresh[d])
  BY <1>2 DEF Maker, InOrder, FreshOK
<1>7. CASE wire[old[c]] # "up" /\ Opens(c)
 <2> SUFFICES ASSUME ~Raced' PROVE InOrder'
   BY <1>3
 <2>1. old[c] = conn
  <3>1. ASSUME old[c] < conn PROVE FALSE
   <4>1. PICK d \in Invocations : fresh[d] /\ old[d] = old[c]
     BY <1>5, <3>1 DEF InOrder, Replaced
   <4>2. d # c /\ fresh'[d] /\ fresh'[c] /\ old'[d] = old'[c]
     BY <1>2, <1>4, <1>5, <1>7, <4>1
   <4>3. QED
     BY <4>2 DEF Raced
  <3>2. QED
    BY <1>5, <3>1
 <2>2. \A n \in Conns : wire[n] \notin {"opening", "up"}
   BY <1>2, <1>7, <2>1 DEF InOrder, OneLive
 <2>3. Replaced'
  <3>1. ASSUME NEW n \in Conns, n < conn + 1 PROVE \E d \in Invocations : fresh'[d] /\ old'[d] = n
   <4>1. n \in Nat
     BY DEF Conns
   <4>2. CASE n = conn
     BY <1>2, <1>7, <2>1, <4>2
   <4>3. CASE n # conn
    <5>1. n < conn
      BY <1>5, <3>1, <4>1, <4>3
    <5>2. QED
      BY <1>4, <5>1 DEF InOrder, Replaced
   <4>4. QED
     BY <4>2, <4>3
  <3>2. QED
    BY <1>7, <3>1 DEF Opens, Replaced
 <2>4. QED
   BY <1>2, <1>6, <1>7, <2>1, <2>2, <2>3, OpensOrder
<1>8. CASE wire[old[c]] = "up" /\ Joins(c)
 <2>1. conn' = conn /\ wire' = wire /\ ~fresh'[c]
   BY <1>2, <1>8 DEF Joins
 <2>2. old[c] = conn
   BY <1>5, <1>8 DEF InOrder, OneLive
 <2>3. OneLive'
   BY <2>1 DEF InOrder, OneLive
 <2>4. Replaced'
   BY <1>4, <2>1 DEF InOrder, Replaced
 <2>5. \A d \in Invocations : FreshOK(d)'
   BY <1>2, <1>6, <2>1, <2>2 DEF FreshOK, OtherCalls
 <2>6. \A s \in Openers : HeldOK(s)'
   BY <1>1, <1>2, <2>1 DEF InOrder, HeldOK, OtherCalls
 <2>7. QED
   BY <1>3, <2>3, <2>4, <2>5, <2>6 DEF InOrder
<1>9. QED
  BY <1>1, <1>7, <1>8, ExistingAt

LEMMA HandshakeOrders ==
    ASSUME ForwardAssumption, CallsOK, InOrder, NEW n \in Conns, Handshake(n)
    PROVE  InOrder'
<1>1. ForwardTypeOK
  BY DEF CallsOK
<1>2. /\ wire[n] = "opening" /\ wire'[n] \in {"up", "failed"}
      /\ \A k \in Conns \ {n} : wire'[k] = wire[k]
      /\ UNCHANGED <<conn, pc, mine, known, old, fresh, heldBy>>
  BY <1>1, HandshakeAt
<1>3. Replaced' /\ \A c \in Invocations : FreshOK(c)'
  BY <1>2 DEF InOrder, Replaced, FreshOK
<1>4. OneLive'
  BY <1>2 DEF InOrder, OneLive
<1>5. ASSUME NEW s \in Openers PROVE HeldOK(s)'
 <2>1. HeldOK(s)
   BY DEF InOrder
 <2>2. heldBy[s] # 0 => heldBy[s] \in Conns
   BY <1>1, CallTypes DEF Conns
 <2>3. heldBy[s] # 0 => heldBy[s] # n
   BY <1>2, <2>1 DEF HeldOK
 <2>4. heldBy[s] # 0 => wire'[heldBy[s]] = wire[heldBy[s]]
   BY <1>2, <2>2, <2>3
 <2>5. QED
   BY <1>2, <2>1, <2>4 DEF HeldOK
<1>6. QED
  BY <1>3, <1>4, <1>5 DEF InOrder

LEMMA DropsOrders ==
    ASSUME ForwardAssumption, CallsOK, InOrder, NEW n \in Conns, Drops(n)
    PROVE  InOrder'
<1>1. ForwardTypeOK
  BY DEF CallsOK
<1>2. /\ wire[n] = "up" /\ wire'[n] = "down" /\ \A k \in Conns \ {n} : wire'[k] = wire[k]
      /\ UNCHANGED <<conn, mine, known, old, fresh, heldBy>>
  BY <1>1, DropsAt
<1>3. \A d \in Invocations : pc'[d] \in {pc[d], "done"}
  BY <1>1, DropsAt
<1>4. Replaced' /\ \A c \in Invocations : FreshOK(c)'
  BY <1>2, <1>3 DEF InOrder, Replaced, FreshOK
<1>5. OneLive'
  BY <1>2 DEF InOrder, OneLive
<1>6. ASSUME NEW s \in Openers PROVE HeldOK(s)'
 <2>1. HeldOK(s)
   BY DEF InOrder
 <2>2. heldBy[s] # 0 => heldBy[s] \in Conns
   BY <1>1, CallTypes DEF Conns
 <2>3. \A k \in Conns : wire'[k] # "up"
   BY <1>2 DEF InOrder, OneLive
 <2>4. heldBy[s] # 0 => wire'[heldBy[s]] \in {"up", "down"}
   BY <1>2, <2>1, <2>2 DEF HeldOK
 <2>5. QED
   BY <1>2, <2>2, <2>3, <2>4 DEF HeldOK
<1>7. QED
  BY <1>4, <1>5, <1>6 DEF InOrder

LEMMA LeaseEndsOrders ==
    ASSUME ForwardAssumption, CallsOK, InOrder, NEW n \in Conns, LeaseEnds(n)
    PROVE  InOrder'
<1>1. ForwardTypeOK /\ Numbered
  BY DEF CallsOK
<1>2. /\ UNCHANGED <<conn, wire, pc, mine, known, old, fresh>>
      /\ \A s \in Openers : heldBy'[s] = IF heldBy[s] = n THEN 0 ELSE heldBy[s]
  BY <1>1, LeaseEndsAt
<1>3. OneLive' /\ Replaced'
  BY <1>2 DEF InOrder, OneLive, Replaced
<1>4. ASSUME NEW c \in Invocations PROVE FreshOK(c)'
 <2> SUFFICES ASSUME pc[c] = "connecting", fresh[c]
              PROVE  mine[c] = conn /\ (\A s \in Openers : heldBy'[s] # conn)
                     /\ \A d \in Invocations \ {c} : mine[d] # conn
   BY <1>2 DEF FreshOK
 <2>1. /\ mine[c] = conn /\ (\A s \in Openers : heldBy[s] # conn)
       /\ \A d \in Invocations \ {c} : mine[d] # conn
   BY DEF InOrder, FreshOK
 <2>2. conn # 0
   BY <1>1, <2>1 DEF Numbered
 <2>3. QED
   BY <1>2, <2>1, <2>2
<1>5. ASSUME NEW s \in Openers PROVE HeldOK(s)'
  BY <1>2 DEF InOrder, HeldOK
<1>6. QED
  BY <1>3, <1>4, <1>5 DEF InOrder

LEMMA WiresRaceNobody ==
    ASSUME CallsOK, NEW n \in Conns, Handshake(n) \/ Drops(n) \/ LeaseEnds(n)
    PROVE  Raced => Raced'
BY DEF Handshake, Drops, LeaseEnds, locals, Raced

LEMMA CallsStayOrdered ==
    ASSUME ForwardAssumption, CallsOK, Prepared, ~Raced => InOrder, ForwardNext
    PROVE  ~Raced' => InOrder'
<1>1. CASE \E c \in Invocations : CallRuns(c) \/ Cancel(c) \/ Serviced(c)
 <2>1. PICK c \in Invocations : CallRuns(c) \/ Cancel(c) \/ Serviced(c)
   BY <1>1
 <2>2. Invoke(c) \/ Existing(c) \/ Turn(c)
   BY <2>1 DEF CallRuns, Serviced, Turn
 <2>3. Raced => Raced'
  <3>1. ForwardTypeOK /\ Numbered
    BY DEF CallsOK
  <3>2. /\ OtherCalls(c)
        /\ pc[c] \in {"idle", "existing"} \/ (old'[c] = old[c] /\ fresh'[c] = fresh[c])
   <4>1. CASE Invoke(c) \/ Existing(c)
     BY <3>1, <4>1, InvokeAt, ExistingAt
   <4>2. CASE Turn(c)
     BY <4>2, TurnIsCalm DEF Calm
   <4>3. QED
     BY <2>2, <4>1, <4>2
  <3>3. QED
    BY <3>1, <3>2, Recorded
 <2>4. QED
   BY <2>2, <2>3, InvokeOrders, ExistingOrders, TurnOrders
<1>2. CASE \E n \in Conns : Handshake(n) \/ Drops(n) \/ LeaseEnds(n)
  BY <1>2, HandshakeOrders, DropsOrders, LeaseEndsOrders, WiresRaceNobody
<1>3. QED
  BY <1>1, <1>2 DEF ForwardNext

(* What the runs of one client keep. *)
ClientOK == CallsOK /\ Prepared /\ (~Raced => InOrder)

LEMMA ClientStarts ==
    ASSUME ForwardAssumption, ForwardInit
    PROVE  ClientOK
<1>1. Prepared
  BY DEF ForwardInit, Prepared, PrepOK, StoppedOK
<1>2. OneLive /\ Replaced
  BY DEF ForwardInit, OneLive, Replaced, Conns
<1>3. \A c \in Invocations : FreshOK(c)
  BY DEF ForwardInit, FreshOK
<1>4. \A s \in Openers : HeldOK(s)
  BY DEF ForwardInit, HeldOK
<1>5. QED
  BY <1>1, <1>2, <1>3, <1>4, CallsStart DEF InOrder, ClientOK

LEMMA ClientStays ==
    ASSUME ForwardAssumption, ClientOK, [ForwardNext]_forwardVars
    PROVE  ClientOK'
<1>1. CASE ForwardNext
  BY <1>1, CallsKeep, CallsWait, CallsStayOrdered DEF ClientOK
<1>2. CASE UNCHANGED forwardVars
 <2>1. CallsOK'
   BY <1>2, CallsStutter DEF ClientOK
 <2>2. Prepared'
   BY <1>2 DEF ClientOK, Prepared, PrepOK, StoppedOK, Unsent, forwardVars
 <2>3. (~Raced => InOrder)'
   BY <1>2 DEF ClientOK, Raced, InOrder, OneLive, Replaced, FreshOK, HeldOK, forwardVars
 <2>4. QED
   BY <2>1, <2>2, <2>3 DEF ClientOK
<1>3. QED
  BY <1>1, <1>2

(* There is one connection at most, and it is the process's own. *)
LEMMA LiveIsOne ==
    ASSUME ForwardAssumption, InOrder
    PROVE  OneConnection
<1> DEFINE Live == {n \in Conns : wire[n] \in {"opening", "up"}}
<1>1. Live \subseteq {conn}
  BY DEF InOrder, OneLive
<1>2. CASE Live = {}
  BY <1>2, FS_EmptySet DEF OneConnection
<1>3. CASE Live = {conn}
  BY <1>3, FS_Singleton DEF OneConnection
<1>4. QED
  BY <1>1, <1>2, <1>3

LEMMA ReachesKnown ==
    ASSUME CallsOK, InOrder
    PROVE  KnownIsReachable
<1>1. ASSUME NEW s \in Openers, told[s] = "result", heldBy[s] # 0, wire[heldBy[s]] = "up"
      PROVE  s \in known /\ heldBy[s] = conn
 <2>1. heldBy[s] \in Conns /\ s \in Invocations
   BY <1>1, CallTypes DEF CallsOK, Conns, Openers, Invocations
 <2>2. pc[s] = "done"
   BY <1>1, <2>1 DEF CallsOK, Known, LinkOK
 <2>3. heldBy[s] = conn
   BY <1>1, <2>1 DEF InOrder, OneLive
 <2>4. QED
   BY <1>1, <2>2, <2>3 DEF InOrder, HeldOK
<1>2. QED
  BY <1>1 DEF KnownIsReachable

(* A call that was cancelled while it was prepared ended there and then, and *)
(* only a drive sends again after its first answer.                         *)
LEMMA NothingSentCancelled ==
    ASSUME ForwardAssumption, ClientOK, ForwardNext
    PROVE  \A c \in cancelled :
             pc'[c] \in Sent => pc'[c] = pc[c] \/ (c \in Drives /\ pc[c] = "opened")
<1> SUFFICES ASSUME NEW c \in cancelled, pc'[c] \in Sent, c \notin Drives \/ pc[c] # "opened"
             PROVE  pc'[c] = pc[c]
  OBVIOUS
<1>1. CallsOK /\ ForwardTypeOK /\ Numbered /\ RunsLeft /\ Known /\ c \in Invocations
  BY CallTypes DEF ClientOK, CallsOK
<1>2. pc[c] \notin {"idle", "walled"} \cup Unsent
  BY <1>1 DEF ClientOK, Prepared, StoppedOK
<1>3. pc[c] = "opened" => c \in Starts
  BY <1>1 DEF RunsLeft, RunOK, Openers
<1>4. ASSUME NEW d \in Invocations, d # c, CallRuns(d) \/ Cancel(d) \/ Serviced(d) PROVE pc'[c] = pc[c]
 <2>1. OtherCalls(d)
  <3>1. CASE Invoke(d) \/ ReplayWall(d) \/ Existing(d) \/ Connected(d)
    BY <1>1, <3>1, InvokeAt, ReplayWallAt, ExistingAt, ConnectedAt
  <3>2. CASE Dispatch(d) \/ Opened(d) \/ Declined(d) \/ Answered(d)
    BY <1>1, <3>2, DispatchAt, OpenedAt, DeclinedAt, AnsweredAt
  <3>3. CASE Cancel(d) \/ Open(d) \/ Runs(d) \/ Aborted(d)
    BY <1>1, <3>3, CancelAt, OpenAt, RunsAt, AbortedAt
  <3>4. QED
    BY <1>4, <3>1, <3>2, <3>3 DEF CallRuns, Serviced
 <2>2. QED
   BY <1>1, <1>4, <2>1 DEF OtherCalls
<1>5. ASSUME CallRuns(c) \/ Cancel(c) \/ Serviced(c) PROVE pc'[c] = pc[c]
 <2>1. CASE CallRuns(c)
  <3>1. CASE Opened(c)
    BY <1>1, <1>3, <3>1, OpenedAt DEF Sent
  <3>2. CASE Declined(c) \/ Answered(c)
    BY <1>1, <3>2, DeclinedAt, AnsweredAt DEF Sent
  <3>3. CASE Invoke(c) \/ ReplayWall(c) \/ Existing(c) \/ Connected(c) \/ Dispatch(c)
    BY <1>1, <1>2, <3>3, InvokeAt, ReplayWallAt, ExistingAt, ConnectedAt, DispatchAt DEF Unsent
  <3>4. QED
    BY <2>1, <3>1, <3>2, <3>3 DEF CallRuns
 <2>2. CASE Cancel(c)
   BY <1>1, <2>2, CancelAt DEF Sent
 <2>3. CASE Serviced(c)
   BY <1>1, <2>3, OpenAt, RunsAt, AbortedAt DEF Serviced, Sent
 <2>4. QED
   BY <1>5, <2>1, <2>2, <2>3
<1>6. ASSUME NEW n \in Conns, Handshake(n) \/ Drops(n) \/ LeaseEnds(n) PROVE pc'[c] = pc[c]
 <2>1. CASE Drops(n)
   BY <1>1, <2>1, DropsAt DEF Sent
 <2>2. CASE Handshake(n) \/ LeaseEnds(n)
   BY <1>1, <2>2, HandshakeAt, LeaseEndsAt
 <2>3. QED
   BY <1>6, <2>1, <2>2
<1>7. QED
  BY <1>4, <1>5, <1>6 DEF ForwardNext

(* Whatever calls run together: until two of them replace the same          *)
(* connection the process has one, on which it can command and finish every *)
(* session its callers were told of.                                        *)
THEOREM ClientIsReachable ==
    ForwardAssumption =>
        (ForwardSpec => [](ForwardTypeOK /\ (~Raced => OneConnection /\ KnownIsReachable)))
<1> SUFFICES ASSUME ForwardAssumption
             PROVE  ForwardSpec => [](ForwardTypeOK /\ (~Raced => OneConnection /\ KnownIsReachable))
  OBVIOUS
<1>1. ForwardInit => ClientOK
  BY ClientStarts
<1>2. ClientOK /\ [ForwardNext]_forwardVars => ClientOK'
  BY ClientStays
<1>3. ClientOK => ForwardTypeOK /\ (~Raced => OneConnection /\ KnownIsReachable)
  BY LiveIsOne, ReachesKnown DEF ClientOK, CallsOK
<1>4. QED
  BY <1>1, <1>2, <1>3, PTL DEF ForwardSpec

(* The whole promise of a client, with the requests it never repeats and the *)
(* cancelled calls that send nothing more.                                  *)
THEOREM ClientIsSafe == ForwardAssumption => (ForwardSpec => ForwardSafe)
<1> SUFFICES ASSUME ForwardAssumption PROVE ForwardSpec => ForwardSafe
  OBVIOUS
<1>1. ForwardInit => ClientOK
  BY ClientStarts
<1>2. ClientOK /\ [ForwardNext]_forwardVars => ClientOK'
  BY ClientStays
<1>3. ClientOK /\ [ForwardNext]_forwardVars =>
        [\A c \in cancelled :
            pc'[c] \in Sent => pc'[c] = pc[c] \/ (c \in Drives /\ pc[c] = "opened")]_forwardVars
  BY NothingSentCancelled
<1>4. ForwardSpec => [](ForwardTypeOK /\ (~Raced => OneConnection /\ KnownIsReachable))
  BY ClientIsReachable
<1>5. ForwardSpec => []NeverReplayed
  BY CallsRunOnce
<1>6. ForwardSpec => OnlyDrivesGoOn
  BY <1>1, <1>2, <1>3, PTL DEF ForwardSpec, OnlyDrivesGoOn
<1>7. QED
  BY <1>4, <1>5, <1>6, PTL DEF ForwardSafe

-----------------------------------------------------------------------------
(* OperateDrive. *)

(* What the records of a drive hold. *)
SomePage == site.pages \cup {Nothing}
Named == site.keys \cup {"INBOX", Nothing}
Wants == {"act", "card", "inbox", "wait", "complete", "stuck", "needs_value", "low_confidence",
          "invalid_answer", "none_of_these", "go_back", "replan", Nothing}
Endings == Wants \cup {"evaluate_timeout", "budget", "jev_unavailable", "no_progress",
                    "pending_approval", "approval_expired", "card_incomplete"}
Acting == {"apply", "check", "act", "card", "inbox", "observe"}
Working == Acting \cup {"progress", "after"}
Steps == Working \cup {"idle", "first", "answer", "top", "ask", "asked"}
Makers == {"answer", "model", "auto", "recover", "wallet", Nothing}

MemoryType ==
    [jev : Nat, bound : SomePage, consumed : Named, last : SomePage, stale : Nat,
     deadOn : SomePage, dead : SUBSET (site.keys \cup {"WAIT"}), stall : SUBSET site.pages,
     spurned : SUBSET (site.keys \cup {"INBOX"}), silent : SUBSET site.keys,
     visited : SUBSET site.keys, dests : Seq(site.pages), keys : Seq(site.pages),
     asked : SUBSET (Wants \X SomePage), absent : BOOLEAN, occluded : Nat,
     pressed : SUBSET site.pages, half : BOOLEAN, released : BOOLEAN, submitted : BOOLEAN]
LocalsType ==
    [pc : Steps, status : Endings, answered : BOOLEAN, calls : Nat, left : 0 .. Seconds,
     steps : 0 .. MaxSteps + 1, acts : Nat, cJev : Nat, cActs : Nat, seen : SomePage,
     refused : BOOLEAN, rejected : BOOLEAN, yield : BOOLEAN, attempted : SUBSET site.pages,
     waits : Nat, terminal : BOOLEAN, inbox : BOOLEAN, by : Makers, want : Wants, key : Named,
     from : SomePage, base : SomePage]
TraceType ==
    [reached : SUBSET (SomePage \X Named), fellback : SUBSET (SomePage \X Named),
     owed : BOOLEAN, dialogs : Nat, checked : SomePage]

(* What was counted as dead was tried. *)
Met(g, p, k) == <<p, k>> \in g.reached \cup g.fellback
Tried(d, g) == \A k \in d.dead \ {"WAIT"} : Met(g, d.deadOn, k)
MemoryOK(d, g) ==
    /\ d \in MemoryType /\ g \in TraceType
    /\ Tried(d, g) /\ d.jev <= MaxJev + 1 + g.dialogs

(* An act is paid for at the end of its iteration, which at most one follows *)
(* without a look at the budget: the question after a recovered choice.      *)
Paid(c) ==
    /\ c.cActs <= c.steps
    /\ c.acts = c.cActs \/ (c.pc \in {"observe", "progress", "after"} /\ c.acts = c.cActs + 1)
    /\ c.by = "auto" /\ c.refused /\ c.pc \in Working => c.pc = "after" /\ c.acts = c.cActs
Budgeted(c) ==
    /\ c.pc \in {"first", "answer"} => c.steps = 0
    /\ c.pc \in Working => c.by # Nothing /\ (c.by # "model" => c.steps < MaxSteps)
    /\ c.pc \in Working \cup {"ask", "asked"} => c.steps <= MaxSteps

(* A decision keeps the page it was made on until that page is checked. *)
Placed(c, g) ==
    /\ c.pc \notin {"idle", "first"} => c.seen \in site.pages
    /\ c.pc \in {"apply", "check"} => c.from = c.seen
    /\ c.pc \in {"act", "card"} => c.from = g.checked
Chosen(c, g) ==
    /\ c.pc \in {"first", "answer"} => c.want = Nothing
    /\ c.pc \in Working /\ c.want \in {"act", "card"} => c.key \in site.keys
    /\ c.pc \in {"apply", "check"} /\ c.want = "inbox" => c.key = "INBOX"
    /\ c.pc = "check" => c.want \in {"act", "card", "inbox"}
    /\ c.pc \in {"act", "card", "inbox"} => c.want = c.pc
    /\ c.pc = "observe" => c.want = "act"
    /\ c.pc \in {"observe", "progress"} /\ c.want = "act" => Met(g, c.base, c.key)

(* A rejected choice goes to the model, which only the wallet comes before. *)
Owing(c, g) ==
    g.owed /\ c.pc # "idle" =>
        /\ c.rejected
        /\ c.pc \in {"after", "top", "ask", "asked"} \/ (c.pc \in Working /\ c.by = "wallet")

(* What every step of carrying out a decision keeps. *)
Common(c) ==
    /\ c.cActs <= c.steps /\ c.steps <= MaxSteps /\ c.seen \in site.pages
    /\ c.by # Nothing /\ (c.by # "model" => c.steps < MaxSteps)
    /\ c.want \in {"act", "card"} => c.key \in site.keys

LocalsOK(d, c, g) ==
    /\ c \in LocalsType /\ Paid(c) /\ Budgeted(c) /\ Placed(c, g) /\ Chosen(c, g) /\ Owing(c, g)
    /\ c.pc = "asked" => d.jev < MaxJev

World(p, n) == p \in site.pages /\ n \in 0 .. MaxDrift
DriveInv ==
    /\ site \in Sites /\ World(pageNow, drift)
    /\ MemoryOK(drive, trace) /\ LocalsOK(drive, loop, trace)

(* What the types of the records and the sites say. *)
LEMMA DriveFacts ==
    ASSUME DriveConstants, DriveInv
    PROVE  /\ drive \in MemoryType /\ loop \in LocalsType /\ trace \in TraceType
           /\ site \in Sites /\ pageNow \in site.pages /\ pageNow \in SomePage
           /\ MemoryOK(drive, trace) /\ LocalsOK(drive, loop, trace)
           /\ drive.jev \in Nat /\ drive.jev <= MaxJev + 1 + trace.dialogs /\ trace.dialogs \in Nat
<1>1. drive \in MemoryType => drive.jev \in Nat
  BY DEF MemoryType
<1>2. trace \in TraceType => trace.dialogs \in Nat
  BY DEF TraceType
<1>3. QED
  BY <1>1, <1>2 DEF DriveInv, MemoryOK, LocalsOK, World, SomePage

LEMMA BoundFacts ==
    ASSUME DriveConstants
    PROVE  /\ MaxSteps \in Nat /\ MaxSteps > 0 /\ MaxJev \in Nat /\ MaxJev > 0
           /\ Seconds \in Nat /\ Seconds > 0
BY DEF DriveConstants

LEMMA SiteFacts ==
    ASSUME DriveConstants, site \in Sites
    PROVE  /\ site.sections \subseteq site.keys /\ site.submits \subseteq site.keys
           /\ (CHOOSE k \in site.keys : TRUE) \in site.keys
<1>1. site.sections \subseteq site.keys /\ site.submits \subseteq site.keys /\ site.keys # {}
  BY DEF DriveConstants
<1>2. QED
  BY <1>1

(* A call that has ended leaves nothing to keep. *)
LEMMA EndedFits ==
    ASSUME DriveConstants, NEW c \in LocalsType, NEW s \in Endings, NEW d, NEW g
    PROVE  LocalsOK(d, Ended(c, s), g)
<1>1. Local \in LocalsType
  BY DEF Local, LocalsType, Steps, SomePage, Named, Makers, Wants, Endings, Nothing,
     DriveConstants
<1>2. Local.pc = "idle" /\ Local.cActs = 0 /\ Local.acts = 0 /\ Local.steps = 0
  BY DEF Local
<1>3. c.calls \in Nat
  BY DEF LocalsType
<1>4. Ended(c, s) \in LocalsType
  BY <1>1, <1>3 DEF Ended, LocalsType
<1>5. /\ Ended(c, s).pc = "idle" /\ Ended(c, s).cActs = 0
      /\ Ended(c, s).acts = 0 /\ Ended(c, s).steps = 0
  BY <1>1, <1>2 DEF Ended, LocalsType
<1>6. QED
  BY <1>4, <1>5 DEF LocalsOK, Paid, Budgeted, Placed, Chosen, Owing, Working, Acting

(* What has to be shown of the locals where the loop decides. *)
LEMMA PausedFits ==
    ASSUME DriveConstants, NEW c \in LocalsType, NEW d, NEW g,
           c.pc \in {"answer", "top", "ask", "asked"}, c.seen \in site.pages,
           c.acts = c.cActs, c.cActs <= c.steps,
           c.pc = "answer" => c.steps = 0 /\ c.want = Nothing /\ ~ g.owed,
           c.pc \in {"ask", "asked"} => c.steps <= MaxSteps,
           c.pc = "asked" => d.jev < MaxJev,
           g.owed => c.rejected
    PROVE  LocalsOK(d, c, g)
<1>1. Paid(c) /\ Budgeted(c)
  BY DEF Paid, Budgeted, Working, Acting
<1>2. Placed(c, g) /\ Chosen(c, g) /\ Owing(c, g)
  BY DEF Placed, Chosen, Owing, Working, Acting
<1>3. QED
  BY <1>1, <1>2 DEF LocalsOK

(* ... and while it carries a decision out. *)
LEMMA AfterFits ==
    ASSUME DriveConstants, NEW c \in LocalsType, NEW d, NEW g, c.pc = "after", Common(c),
           c.acts = c.cActs \/ c.acts = c.cActs + 1,
           c.by = "auto" /\ c.refused => c.acts = c.cActs,
           g.owed => c.rejected
    PROVE  LocalsOK(d, c, g)
<1>1. Paid(c) /\ Budgeted(c)
  BY DEF Common, Paid, Budgeted, Working, Acting
<1>2. Placed(c, g) /\ Chosen(c, g) /\ Owing(c, g)
  BY DEF Common, Placed, Chosen, Owing, Working, Acting
<1>3. QED
  BY <1>1, <1>2 DEF LocalsOK

LEMMA ApplyFits ==
    ASSUME DriveConstants, NEW c \in LocalsType, NEW d, NEW g, c.pc = "apply", Common(c),
           c.acts = c.cActs, ~ (c.by = "auto" /\ c.refused), c.from = c.seen,
           c.want = "inbox" => c.key = "INBOX",
           g.owed => c.rejected /\ c.by = "wallet"
    PROVE  LocalsOK(d, c, g)
<1>1. Paid(c) /\ Budgeted(c)
  BY DEF Common, Paid, Budgeted, Working, Acting
<1>2. Placed(c, g) /\ Chosen(c, g) /\ Owing(c, g)
  BY DEF Common, Placed, Chosen, Owing, Working, Acting
<1>3. QED
  BY <1>1, <1>2 DEF LocalsOK

LEMMA DoingFits ==
    ASSUME DriveConstants, NEW c \in LocalsType, NEW d, NEW g,
           c.pc \in {"check", "act", "card", "inbox"}, Common(c),
           c.acts = c.cActs, ~ (c.by = "auto" /\ c.refused),
           c.want \in {"act", "card", "inbox"}, c.pc # "check" => c.want = c.pc,
           c.pc = "check" => c.from = c.seen /\ (c.want = "inbox" => c.key = "INBOX"),
           c.pc \in {"act", "card"} => c.from = g.checked,
           g.owed => c.rejected /\ c.by = "wallet"
    PROVE  LocalsOK(d, c, g)
<1>1. Paid(c) /\ Budgeted(c)
  BY DEF Common, Paid, Budgeted, Working, Acting
<1>2. Placed(c, g) /\ Chosen(c, g) /\ Owing(c, g)
  BY DEF Common, Placed, Chosen, Owing, Working, Acting
<1>3. QED
  BY <1>1, <1>2 DEF LocalsOK

LEMMA NotedFits ==
    ASSUME DriveConstants, NEW c \in LocalsType, NEW d, NEW g,
           c.pc \in {"observe", "progress"}, Common(c),
           c.acts = c.cActs \/ c.acts = c.cActs + 1, ~ (c.by = "auto" /\ c.refused),
           c.pc = "observe" => c.want = "act",
           c.want = "act" => Met(g, c.base, c.key),
           g.owed => c.rejected /\ c.by = "wallet"
    PROVE  LocalsOK(d, c, g)
<1>1. Paid(c) /\ Budgeted(c)
  BY DEF Common, Paid, Budgeted, Working, Acting
<1>2. Placed(c, g) /\ Chosen(c, g) /\ Owing(c, g)
  BY DEF Common, Placed, Chosen, Owing, Working, Acting
<1>3. QED
  BY <1>1, <1>2 DEF LocalsOK

(* What is known of them there. *)
LEMMA BeginFacts ==
    ASSUME DriveConstants, DriveInv, loop.pc \in {"first", "answer"}
    PROVE  /\ loop.acts = loop.cActs /\ loop.cActs <= loop.steps /\ loop.steps = 0
           /\ ~ trace.owed /\ loop.want = Nothing
           /\ loop.pc = "answer" => loop.seen \in site.pages
BY DriveFacts DEF LocalsOK, Paid, Budgeted, Placed, Chosen, Owing, Working, Acting

LEMMA RestFacts ==
    ASSUME DriveConstants, DriveInv, loop.pc \in {"top", "ask", "asked"}
    PROVE  /\ loop.acts = loop.cActs /\ loop.cActs <= loop.steps
           /\ loop.seen \in site.pages /\ (trace.owed => loop.rejected)
           /\ loop.pc \in {"ask", "asked"} => loop.steps <= MaxSteps
           /\ loop.pc = "asked" => drive.jev < MaxJev
<1>1. /\ loop.acts = loop.cActs /\ loop.cActs <= loop.steps
      /\ loop.pc \in {"ask", "asked"} => loop.steps <= MaxSteps
      /\ loop.pc = "asked" => drive.jev < MaxJev
  BY DriveFacts DEF LocalsOK, Paid, Budgeted, Working, Acting
<1>2. loop.seen \in site.pages /\ (trace.owed => loop.rejected)
  BY DriveFacts DEF LocalsOK, Placed, Owing
<1>3. QED
  BY <1>1, <1>2

LEMMA WorkFacts ==
    ASSUME DriveConstants, DriveInv, loop.pc \in Working
    PROVE  /\ Common(loop)
           /\ loop.acts = loop.cActs \/ loop.acts = loop.cActs + 1
           /\ loop.pc \in {"apply", "check", "act", "card", "inbox"} => loop.acts = loop.cActs
           /\ loop.by = "auto" /\ loop.refused => loop.pc = "after" /\ loop.acts = loop.cActs
           /\ trace.owed => loop.rejected /\ (loop.pc = "after" \/ loop.by = "wallet")
           /\ loop.pc \in {"apply", "check"} =>
                 loop.from = loop.seen /\ (loop.want = "inbox" => loop.key = "INBOX")
           /\ loop.pc = "check" => loop.want \in {"act", "card", "inbox"}
           /\ loop.pc \in {"act", "card", "inbox"} => loop.want = loop.pc
           /\ loop.pc \in {"act", "card"} => loop.from = trace.checked
           /\ loop.pc = "observe" => loop.want = "act"
           /\ loop.pc \in {"observe", "progress"} /\ loop.want = "act" =>
                 Met(trace, loop.base, loop.key)
<1>1. /\ loop.acts = loop.cActs \/ loop.acts = loop.cActs + 1
      /\ loop.pc \in {"apply", "check", "act", "card", "inbox"} => loop.acts = loop.cActs
      /\ loop.by = "auto" /\ loop.refused => loop.pc = "after" /\ loop.acts = loop.cActs
      /\ loop.cActs <= loop.steps
  BY DriveFacts DEF LocalsOK, Paid, Working, Acting
<1>2. loop.steps <= MaxSteps /\ loop.by # Nothing /\ (loop.by # "model" => loop.steps < MaxSteps)
  BY DriveFacts DEF LocalsOK, Budgeted
<1>3. /\ loop.seen \in site.pages
      /\ loop.pc \in {"apply", "check"} => loop.from = loop.seen
      /\ loop.pc \in {"act", "card"} => loop.from = trace.checked
  BY DriveFacts DEF LocalsOK, Placed, Working, Acting
<1>4. trace.owed => loop.rejected /\ (loop.pc = "after" \/ loop.by = "wallet")
  BY DriveFacts DEF LocalsOK, Owing, Working, Acting
<1>5. /\ loop.want \in {"act", "card"} => loop.key \in site.keys
      /\ loop.pc \in {"apply", "check"} => (loop.want = "inbox" => loop.key = "INBOX")
      /\ loop.pc = "check" => loop.want \in {"act", "card", "inbox"}
      /\ loop.pc \in {"act", "card", "inbox"} => loop.want = loop.pc
      /\ loop.pc = "observe" => loop.want = "act"
      /\ loop.pc \in {"observe", "progress"} /\ loop.want = "act" =>
            Met(trace, loop.base, loop.key)
  BY DriveFacts DEF LocalsOK, Chosen
<1>6. Common(loop)
  BY <1>1, <1>2, <1>3, <1>5 DEF Common
<1>7. QED
  BY <1>1, <1>3, <1>4, <1>5, <1>6

LEMMA HeldFacts ==
    ASSUME DriveConstants, DriveInv, loop.pc \in {"apply", "check"}
    PROVE  /\ Common(loop) /\ loop.acts = loop.cActs /\ loop.from = loop.seen
           /\ ~ (loop.by = "auto" /\ loop.refused) /\ (loop.want = "inbox" => loop.key = "INBOX")
           /\ (trace.owed => loop.rejected /\ loop.by = "wallet") /\ loop.seen \in site.pages
           /\ loop.want \in {"act", "card"} => loop.key \in site.keys
           /\ loop.pc = "check" => loop.want \in {"act", "card", "inbox"}
<1>1. loop.pc \in Working
  BY DEF Working, Acting
<1>2. /\ Common(loop) /\ loop.acts = loop.cActs /\ loop.from = loop.seen
      /\ ~ (loop.by = "auto" /\ loop.refused) /\ (loop.want = "inbox" => loop.key = "INBOX")
      /\ trace.owed => loop.rejected /\ loop.by = "wallet"
      /\ loop.pc = "check" => loop.want \in {"act", "card", "inbox"}
  BY <1>1, WorkFacts
<1>3. QED
  BY <1>2 DEF Common

LEMMA DoingFacts ==
    ASSUME DriveConstants, DriveInv, loop.pc \in {"act", "card", "inbox"}
    PROVE  /\ Common(loop) /\ loop.acts = loop.cActs /\ loop.want = loop.pc
           /\ ~ (loop.by = "auto" /\ loop.refused)
           /\ (trace.owed => loop.rejected /\ loop.by = "wallet") /\ loop.seen \in site.pages
           /\ loop.pc # "inbox" => loop.key \in site.keys /\ loop.from = trace.checked
<1>1. loop.pc \in Working
  BY DEF Working, Acting
<1>2. /\ Common(loop) /\ loop.acts = loop.cActs /\ loop.want = loop.pc
      /\ ~ (loop.by = "auto" /\ loop.refused)
      /\ trace.owed => loop.rejected /\ loop.by = "wallet"
      /\ loop.pc # "inbox" => loop.from = trace.checked
  BY <1>1, WorkFacts
<1>3. QED
  BY <1>2 DEF Common

LEMMA NotedFacts ==
    ASSUME DriveConstants, DriveInv, loop.pc \in {"observe", "progress"}
    PROVE  /\ Common(loop) /\ (loop.acts = loop.cActs \/ loop.acts = loop.cActs + 1)
           /\ ~ (loop.by = "auto" /\ loop.refused)
           /\ (trace.owed => loop.rejected /\ loop.by = "wallet") /\ loop.seen \in site.pages
           /\ loop.pc = "observe" => loop.want = "act"
           /\ loop.want = "act" => loop.key \in site.keys /\ Met(trace, loop.base, loop.key)
<1>1. loop.pc \in Working
  BY DEF Working, Acting
<1>2. /\ Common(loop) /\ (loop.acts = loop.cActs \/ loop.acts = loop.cActs + 1)
      /\ ~ (loop.by = "auto" /\ loop.refused)
      /\ trace.owed => loop.rejected /\ loop.by = "wallet"
      /\ loop.pc = "observe" => loop.want = "act"
      /\ loop.want = "act" => Met(trace, loop.base, loop.key)
  BY <1>1, WorkFacts
<1>3. QED
  BY <1>2 DEF Common

(* What is remembered of dead controls and of questions decides. *)
LEMMA MemoryKept ==
    ASSUME NEW d, NEW g, MemoryOK(d, g), NEW e \in MemoryType,
           e.jev = d.jev, e.dead = d.dead, e.deadOn = d.deadOn
    PROVE  MemoryOK(e, g)
BY DEF MemoryOK, Tried

LEMMA TraceGrows ==
    ASSUME NEW d, NEW g, MemoryOK(d, g), NEW h \in TraceType,
           g.reached \subseteq h.reached, g.fellback \subseteq h.fellback, h.dialogs = g.dialogs
    PROVE  MemoryOK(d, h)
BY DEF MemoryOK, Tried, Met

LEMMA FreshPageFits ==
    ASSUME DriveConstants, DriveInv, loop.seen \in site.pages
    PROVE  /\ FreshPage(drive) \in MemoryType /\ MemoryOK(FreshPage(drive), trace)
           /\ FreshPage(drive).jev = drive.jev
<1>0. drive \in MemoryType /\ MemoryOK(drive, trace)
  BY DriveFacts
<1>1. CASE drive.deadOn = loop.seen
  BY <1>0, <1>1 DEF FreshPage
<1>2. CASE drive.deadOn # loop.seen
 <2> DEFINE e == [drive EXCEPT !.deadOn = loop.seen, !.dead = {}]
 <2>1. e \in MemoryType /\ e.jev = drive.jev /\ e.dead = {}
   BY <1>0 DEF MemoryType, SomePage
 <2>2. FreshPage(drive) = e
   BY <1>2 DEF FreshPage
 <2>3. QED
   BY <1>0, <2>1, <2>2 DEF MemoryOK, Tried
<1>3. QED
  BY <1>1, <1>2

LEMMA MarkDeadFits ==
    ASSUME NEW d, NEW g, MemoryOK(d, g), NEW p \in site.pages,
           NEW k \in site.keys \cup {"WAIT"}, k = "WAIT" \/ Met(g, p, k)
    PROVE  /\ MarkDead(d, k, p) \in MemoryType /\ MemoryOK(MarkDead(d, k, p), g)
           /\ MarkDead(d, k, p).jev = d.jev
<1> DEFINE e == MarkDead(d, k, p)
<1>1. d \in MemoryType /\ Tried(d, g)
  BY DEF MemoryOK
<1>2. /\ e \in MemoryType /\ e.jev = d.jev /\ e.deadOn = p
      /\ e.dead = (IF d.deadOn = p THEN d.dead ELSE {}) \cup {k}
  BY <1>1 DEF MarkDead, MemoryType, SomePage
<1>3. Tried(e, g)
  BY <1>1, <1>2 DEF Tried
<1>4. QED
  BY <1>2, <1>3 DEF MemoryOK

LEMMA BindsFits ==
    ASSUME NEW d, NEW g, MemoryOK(d, g), loop.seen \in site.pages
    PROVE  /\ Binds(d) \in MemoryType /\ MemoryOK(Binds(d), g) /\ Binds(d).jev = d.jev
<1>1. d \in MemoryType
  BY DEF MemoryOK
<1>2. /\ Binds(d) \in MemoryType /\ Binds(d).jev = d.jev
      /\ Binds(d).dead = d.dead /\ Binds(d).deadOn = d.deadOn
  BY <1>1 DEF Binds, MemoryType, SomePage, Named, Nothing
<1>3. QED
  BY <1>2, MemoryKept

(* An iteration is paid for once, whatever it did. *)
LEMMA SpendIs ==
    ASSUME DriveConstants, DriveInv, NEW c \in LocalsType, c.steps <= MaxSteps
    PROVE  /\ Spend(c) \in LocalsType /\ Spend(c).pc = c.pc
           /\ Spend(c).acts = c.acts /\ Spend(c).cActs = c.acts
           /\ Spend(c).steps \in {c.steps, c.steps + 1}
           /\ c.acts # c.cActs => Spend(c).steps = c.steps + 1
           /\ Spend(c).seen = c.seen /\ Spend(c).rejected = c.rejected
<1>1. CASE drive.jev = c.cJev /\ c.acts = c.cActs
  BY <1>1 DEF Spend, LocalsType
<1>2. CASE ~ (drive.jev = c.cJev /\ c.acts = c.cActs)
 <2>1. c.steps + 1 \in 0 .. MaxSteps + 1 /\ drive.jev \in Nat
   BY DriveFacts DEF LocalsType, DriveConstants
 <2>2. QED
   BY <1>2, <2>1 DEF Spend, LocalsType
<1>3. QED
  BY <1>1, <1>2

LEMMA SpentFits ==
    ASSUME DriveConstants, DriveInv, NEW c \in LocalsType, NEW d, NEW g, c.pc = "top",
           c.steps <= MaxSteps, c.acts = c.cActs \/ c.acts = c.cActs + 1, c.cActs <= c.steps,
           c.seen \in site.pages, g.owed => c.rejected
    PROVE  LocalsOK(d, Spend(c), g)
<1>1. c.acts \in Nat /\ c.cActs \in Nat /\ c.steps \in Nat
  BY DEF LocalsType
<1>2. /\ Spend(c) \in LocalsType /\ Spend(c).pc = "top"
      /\ Spend(c).acts = Spend(c).cActs /\ Spend(c).cActs <= Spend(c).steps
      /\ Spend(c).seen \in site.pages /\ (g.owed => Spend(c).rejected)
  BY <1>1, SpendIs
<1>3. QED
  BY <1>2, PausedFits

LEMMA DecidedIs ==
    ASSUME DriveConstants, DriveInv, loop.seen \in site.pages,
           NEW by \in Makers, NEW want \in Wants, NEW key \in Named
    PROVE  LET c == Decided(by, want, key) IN
           /\ c \in LocalsType /\ c.pc = "apply"
           /\ c.acts = loop.acts /\ c.cActs = loop.cActs /\ c.steps = loop.steps
           /\ c.seen = loop.seen /\ c.refused = loop.refused /\ c.rejected = loop.rejected
           /\ c.by = by /\ c.want = want /\ c.key = key /\ c.from = loop.seen
BY DriveFacts DEF Decided, LocalsType, Steps, Working, Acting, SomePage

(* A decision of one's own is taken on the page seen, with a step left. *)
LEMMA DecidedFits ==
    ASSUME DriveConstants, DriveInv, loop.pc = "top", loop.steps < MaxSteps,
           NEW by \in {"auto", "wallet", "recover"}, by # "wallet" => ~ loop.rejected,
           NEW want \in {"act", "card", "wait", "inbox"},
           NEW key \in Named, want \in {"act", "card"} => key \in site.keys,
           want = "inbox" => key = "INBOX",
           NEW c \in LocalsType, c.pc = "apply", c.acts = loop.acts, c.cActs = loop.cActs,
           c.steps = loop.steps, c.seen = loop.seen, c.refused = FALSE,
           c.rejected = loop.rejected, c.by = by, c.want = want, c.key = key,
           c.from = loop.seen, NEW d
    PROVE  LocalsOK(d, c, trace)
<1>1. /\ loop.acts = loop.cActs /\ loop.cActs <= loop.steps /\ loop.steps \in Nat
      /\ loop.seen \in site.pages /\ (trace.owed => loop.rejected)
  BY DriveFacts, RestFacts DEF LocalsType
<1>2. MaxSteps \in Nat /\ by # Nothing
  BY BoundFacts DEF Nothing
<1>3. Common(c)
  BY <1>1, <1>2 DEF Common
<1>4. QED
  BY <1>1, <1>3, ApplyFits

LEMMA FirstKeeps ==
    ASSUME DriveConstants, DriveInv, First
    PROVE  MemoryOK(drive', trace') /\ LocalsOK(drive', loop', trace')
<1>1. /\ loop.pc = "first" /\ drive' = drive /\ trace' = trace
      /\ loop \in LocalsType /\ pageNow \in site.pages /\ MemoryOK(drive, trace)
  BY DriveFacts DEF First, Env
<1>2. CASE loop' = Ended(loop, "evaluate_timeout")
  BY <1>1, <1>2, EndedFits DEF Endings
<1>3. CASE loop' = [loop EXCEPT !.pc = IF loop.answered THEN "answer" ELSE "top", !.seen = pageNow]
 <2>1. /\ loop' \in LocalsType /\ loop'.pc \in {"answer", "top"} /\ loop'.acts = loop.acts
       /\ loop'.cActs = loop.cActs /\ loop'.steps = loop.steps /\ loop'.seen = pageNow
       /\ loop'.want = loop.want
   BY <1>1, <1>3 DEF LocalsType, SomePage, Steps
 <2>2. LocalsOK(drive, loop', trace)
   BY <1>1, <2>1, BeginFacts, PausedFits
 <2>3. QED
   BY <1>1, <2>2
<1>4. QED
  BY <1>2, <1>3 DEF First

LEMMA ResumeAnswerKeeps ==
    ASSUME DriveConstants, DriveInv, ResumeAnswer
    PROVE  MemoryOK(drive', trace') /\ LocalsOK(drive', loop', trace')
<1>1. loop.pc = "answer" /\ trace' = trace /\ loop \in LocalsType /\ MemoryOK(drive, trace)
  BY DriveFacts DEF ResumeAnswer, Env
<1>2. /\ loop.acts = loop.cActs /\ loop.cActs <= loop.steps /\ loop.steps = 0
      /\ ~ trace.owed /\ loop.seen \in site.pages /\ MaxSteps \in Nat /\ MaxSteps > 0
  BY <1>1, BeginFacts, BoundFacts
<1>3. MemoryOK(drive', trace')
 <2> DEFINE d == Binds(drive)
 <2>1. d \in MemoryType /\ MemoryOK(d, trace)
   BY <1>1, <1>2, BindsFits
 <2>2. drive' = [d EXCEPT !.asked = {}]
   BY DEF ResumeAnswer
 <2> HIDE DEF d
 <2>3. /\ drive' \in MemoryType /\ drive'.jev = d.jev
       /\ drive'.dead = d.dead /\ drive'.deadOn = d.deadOn
   BY <2>1, <2>2 DEF MemoryType
 <2>4. QED
   BY <1>1, <2>1, <2>3, MemoryKept
<1>4. ASSUME NEW w \in {"act", "complete", "wait", "needs_value", "invalid_answer"},
             NEW k \in Named, w = "act" => k \in site.keys, loop' = Decided("answer", w, k)
      PROVE  LocalsOK(drive', loop', trace')
 <2>1. "answer" \in Makers /\ w \in Wants
   BY DEF Makers, Wants
 <2>2. /\ loop' \in LocalsType /\ loop'.pc = "apply" /\ loop'.acts = loop.acts
       /\ loop'.cActs = loop.cActs /\ loop'.steps = loop.steps /\ loop'.seen = loop.seen
       /\ loop'.by = "answer" /\ loop'.want = w /\ loop'.key = k /\ loop'.from = loop.seen
   BY <1>2, <1>4, <2>1, DecidedIs
 <2>3. Common(loop')
   BY <1>2, <1>4, <2>2 DEF Common, Nothing
 <2>4. LocalsOK(drive', loop', trace)
   BY <1>1, <1>2, <1>4, <2>2, <2>3, ApplyFits
 <2>5. QED
   BY <1>1, <2>4
<1>5. CASE loop' = GoesTo([loop EXCEPT !.by = "answer"], "after")
 <2>0. loop.want = Nothing
   BY <1>1, BeginFacts
 <2>1. /\ loop' \in LocalsType /\ loop'.pc = "after" /\ loop'.acts = loop.acts
       /\ loop'.cActs = loop.cActs /\ loop'.steps = loop.steps /\ loop'.seen = loop.seen
       /\ loop'.by = "answer" /\ loop'.want = loop.want /\ loop'.key = loop.key
   BY <1>1, <1>5 DEF GoesTo, LocalsType, Makers, Steps, Working
 <2>2. Common(loop')
   BY <1>2, <2>0, <2>1 DEF Common, Nothing
 <2>3. LocalsOK(drive', loop', trace)
   BY <1>1, <1>2, <2>1, <2>2, AfterFits
 <2>4. QED
   BY <1>1, <1>3, <2>3
<1>6. CASE loop' = Ended(loop, "stuck")
  BY <1>1, <1>3, <1>6, EndedFits DEF Endings, Wants
<1>7. QED
 <2>1. CASE \E k \in site.keys : loop' = Decided("answer", "act", k)
   BY <1>3, <1>4, <2>1 DEF Named
 <2>2. CASE \E w \in {"complete", "wait", "needs_value", "invalid_answer"} :
               loop' = Decided("answer", w, Nothing)
   BY <1>3, <1>4, <2>2 DEF Named
 <2>3. QED
   BY <1>3, <1>5, <1>6, <2>1, <2>2 DEF ResumeAnswer

LEMMA OutOfBudgetKeeps ==
    ASSUME DriveConstants, DriveInv, OutOfBudget
    PROVE  MemoryOK(drive', trace') /\ LocalsOK(drive', loop', trace')
<1>1. drive' = drive /\ trace' = trace /\ loop \in LocalsType /\ MemoryOK(drive, trace)
  BY DriveFacts DEF OutOfBudget, Env
<1>2. "budget" \in Endings /\ "stuck" \in Endings
  BY DEF Endings, Wants
<1>3. QED
  BY <1>1, <1>2, EndedFits DEF OutOfBudget

LEMMA DialogKeeps ==
    ASSUME DriveConstants, DriveInv, Dialog
    PROVE  MemoryOK(drive', trace') /\ LocalsOK(drive', loop', trace')
<1>1. /\ loop.pc = "top" /\ loop.steps < MaxSteps /\ drive \in MemoryType
      /\ loop \in LocalsType /\ trace \in TraceType /\ MemoryOK(drive, trace)
      /\ drive.jev \in Nat /\ MaxSteps \in Nat
  BY DriveFacts, BoundFacts DEF Dialog, Top, HasBudget
<1>2. "needs_value" \in Endings /\ "jev_unavailable" \in Endings
  BY DEF Endings, Wants
<1>3. CASE UNCHANGED <<Env, drive, trace>> /\ loop' \in {Ended(loop, "needs_value"), Ended(loop, "jev_unavailable")}
  BY <1>1, <1>2, <1>3, EndedFits
<1>4. CASE /\ drive' = [drive EXCEPT !.jev = @ + 1] /\ trace' = [trace EXCEPT !.dialogs = @ + 1]
           /\ \/ loop' = Ended(loop, "needs_value")
              \/ /\ pageNow' \in site.pages
                 /\ loop' = [loop EXCEPT !.steps = @ + 1, !.cJev = drive.jev + 1,
                                         !.cActs = loop.acts, !.seen = pageNow', !.refused = FALSE]
 <2>0. drive.jev + 1 \in Nat
   BY <1>1
 <2>1. /\ drive' \in MemoryType /\ drive'.jev = drive.jev + 1
       /\ drive'.dead = drive.dead /\ drive'.deadOn = drive.deadOn
   BY <1>1, <1>4, <2>0 DEF MemoryType
 <2>2. /\ trace' \in TraceType /\ trace'.dialogs = trace.dialogs + 1 /\ trace.dialogs \in Nat
       /\ trace'.reached = trace.reached /\ trace'.fellback = trace.fellback
       /\ trace'.owed = trace.owed
   BY <1>1, <1>4 DEF TraceType
 <2>3. MemoryOK(drive', trace')
   BY <1>1, <2>1, <2>2, BoundFacts DEF MemoryOK, Tried, Met
 <2>4. CASE loop' = Ended(loop, "needs_value")
   BY <1>1, <1>2, <2>3, <2>4, EndedFits
 <2>5. CASE /\ pageNow' \in site.pages
            /\ loop' = [loop EXCEPT !.steps = @ + 1, !.cJev = drive.jev + 1,
                                    !.cActs = loop.acts, !.seen = pageNow', !.refused = FALSE]
  <3>0. loop.steps + 1 \in 0 .. MaxSteps + 1 /\ loop.acts \in Nat /\ loop.steps \in Nat
    BY <1>1 DEF LocalsType
  <3>1. /\ loop' \in LocalsType /\ loop'.pc = "top" /\ loop'.acts = loop.acts
        /\ loop'.cActs = loop.acts /\ loop'.steps = loop.steps + 1
        /\ loop'.seen = pageNow' /\ loop'.rejected = loop.rejected
    BY <1>1, <2>0, <2>5, <3>0 DEF LocalsType, SomePage
  <3>2. loop.acts <= loop.steps /\ (trace.owed => loop.rejected)
    BY <1>1, RestFacts
  <3>3. /\ loop'.acts = loop'.cActs /\ loop'.cActs <= loop'.steps
        /\ loop'.seen \in site.pages /\ (trace'.owed => loop'.rejected)
    BY <2>2, <2>5, <3>0, <3>1, <3>2
  <3>4. LocalsOK(drive', loop', trace')
    BY <3>1, <3>3, PausedFits
  <3>5. QED
    BY <2>3, <3>4
 <2>6. QED
   BY <1>4, <2>4, <2>5
<1>5. QED
  BY <1>3, <1>4 DEF Dialog

LEMMA NotReadyKeeps ==
    ASSUME DriveConstants, DriveInv, NotReady
    PROVE  MemoryOK(drive', trace') /\ LocalsOK(drive', loop', trace')
<1>1. /\ loop.pc = "top" /\ loop.steps < MaxSteps /\ drive' = drive /\ trace' = trace
      /\ loop \in LocalsType /\ MemoryOK(drive, trace) /\ pageNow \in site.pages /\ MaxSteps \in Nat
  BY DriveFacts, BoundFacts DEF NotReady, Top, HasBudget, Env
<1> DEFINE c == [loop EXCEPT !.seen = pageNow, !.refused = FALSE]
<1>2. /\ c \in LocalsType /\ c.pc = "top" /\ c.acts = loop.acts /\ c.cActs = loop.cActs
      /\ c.steps = loop.steps /\ c.seen = pageNow /\ c.rejected = loop.rejected
  BY <1>1 DEF LocalsType, SomePage
<1>3. CASE loop' = Ended(loop, "evaluate_timeout")
  BY <1>1, <1>3, EndedFits DEF Endings
<1> HIDE DEF c
<1>4. CASE loop' = Spend(c)
 <2>1. c.steps <= MaxSteps
   BY <1>1, <1>2 DEF LocalsType
 <2>2. LocalsOK(drive, Spend(c), trace)
   BY <1>1, <1>2, <2>1, RestFacts, SpentFits
 <2>3. QED
   BY <1>1, <1>4, <2>2
<1>5. QED
  BY <1>3, <1>4 DEF NotReady, c

LEMMA WalletKeeps ==
    ASSUME DriveConstants, DriveInv, Wallet
    PROVE  MemoryOK(drive', trace') /\ LocalsOK(drive', loop', trace')
<1>1. /\ loop.pc = "top" /\ loop.steps < MaxSteps /\ trace' = trace /\ MemoryOK(drive, trace)
  BY DriveFacts DEF Wallet, ByItself, Top, HasBudget, Env
<1>2. loop.seen \in site.pages
  BY <1>1, RestFacts
<1>3. MemoryOK(drive', trace')
  BY <1>1, <1>2, BindsFits DEF Wallet
<1>4. LocalsOK(drive', loop', trace')
 <2> DEFINE k0 == (CHOOSE k \in site.keys : TRUE)
 <2>0. k0 \in Named /\ k0 \in site.keys
   BY DriveFacts, SiteFacts DEF Named
 <2> HIDE DEF k0
 <2>1. "wallet" \in Makers /\ "act" \in Wants
   BY DEF Makers, Wants
 <2> DEFINE c == Decided("wallet", "act", k0)
 <2>2. /\ c \in LocalsType /\ c.pc = "apply"
       /\ c.acts = loop.acts /\ c.cActs = loop.cActs /\ c.steps = loop.steps
       /\ c.seen = loop.seen /\ c.rejected = loop.rejected
       /\ c.by = "wallet" /\ c.want = "act" /\ c.key = k0 /\ c.from = loop.seen
   BY <1>2, <2>0, <2>1, DecidedIs
 <2>3. loop' = [c EXCEPT !.refused = FALSE]
   BY DEF Wallet, k0
 <2> HIDE DEF c
 <2>4. /\ loop' \in LocalsType /\ loop'.pc = "apply" /\ loop'.refused = FALSE
       /\ loop'.acts = loop.acts /\ loop'.cActs = loop.cActs /\ loop'.steps = loop.steps
       /\ loop'.seen = loop.seen /\ loop'.rejected = loop.rejected
       /\ loop'.by = "wallet" /\ loop'.want = "act" /\ loop'.key = k0
       /\ loop'.from = loop.seen
   BY <1>2, <2>2, <2>3 DEF LocalsType
 <2>5. LocalsOK(drive', loop', trace)
   BY <1>1, <2>0, <2>3, <2>4, DecidedFits
 <2>6. QED
   BY <1>1, <2>5
<1>5. QED
  BY <1>3, <1>4

LEMMA FillFieldKeeps ==
    ASSUME DriveConstants, DriveInv, FillField
    PROVE  MemoryOK(drive', trace') /\ LocalsOK(drive', loop', trace')
<1>1. /\ loop.pc = "top" /\ loop.steps < MaxSteps /\ trace' = trace /\ MemoryOK(drive, trace)
  BY DriveFacts DEF FillField, ByItself, Top, HasBudget, Env
<1>2. loop.seen \in site.pages
  BY <1>1, RestFacts
<1>3. MemoryOK(drive', trace')
  BY <1>1, <1>2, BindsFits DEF FillField
<1>4. LocalsOK(drive', loop', trace')
 <2> DEFINE k0 == (CHOOSE k \in site.keys : TRUE)
 <2>0. k0 \in Named /\ k0 \in site.keys
   BY DriveFacts, SiteFacts DEF Named
 <2> HIDE DEF k0
 <2>1. "auto" \in Makers /\ "act" \in Wants
   BY DEF Makers, Wants
 <2> DEFINE c == Decided("auto", "act", k0)
 <2>2. /\ c \in LocalsType /\ c.pc = "apply"
       /\ c.acts = loop.acts /\ c.cActs = loop.cActs /\ c.steps = loop.steps
       /\ c.seen = loop.seen /\ c.rejected = loop.rejected
       /\ c.by = "auto" /\ c.want = "act" /\ c.key = k0 /\ c.from = loop.seen
   BY <1>2, <2>0, <2>1, DecidedIs
 <2>3. loop' = [c EXCEPT !.refused = FALSE, !.attempted = @ \cup {loop.seen}] /\ ~ loop.rejected
   BY DEF FillField, ByItself, Automatic, k0
 <2> HIDE DEF c
 <2>4. /\ loop' \in LocalsType /\ loop'.pc = "apply" /\ loop'.refused = FALSE
       /\ loop'.acts = loop.acts /\ loop'.cActs = loop.cActs /\ loop'.steps = loop.steps
       /\ loop'.seen = loop.seen /\ loop'.rejected = loop.rejected
       /\ loop'.by = "auto" /\ loop'.want = "act" /\ loop'.key = k0
       /\ loop'.from = loop.seen
   BY <1>2, <2>2, <2>3 DEF LocalsType
 <2>5. LocalsOK(drive', loop', trace)
   BY <1>1, <2>0, <2>3, <2>4, DecidedFits
 <2>6. QED
   BY <1>1, <2>5
<1>5. QED
  BY <1>3, <1>4

LEMMA AutoCardKeeps ==
    ASSUME DriveConstants, DriveInv, AutoCard
    PROVE  MemoryOK(drive', trace') /\ LocalsOK(drive', loop', trace')
<1>1. /\ loop.pc = "top" /\ loop.steps < MaxSteps /\ trace' = trace /\ MemoryOK(drive, trace)
  BY DriveFacts DEF AutoCard, ByItself, Top, HasBudget, Env
<1>2. loop.seen \in site.pages
  BY <1>1, RestFacts
<1>3. MemoryOK(drive', trace')
  BY <1>1, <1>2, BindsFits, FreshPageFits DEF AutoCard
<1>4. LocalsOK(drive', loop', trace')
 <2> DEFINE k0 == (CHOOSE k \in site.keys : TRUE)
 <2>0. k0 \in Named /\ k0 \in site.keys
   BY DriveFacts, SiteFacts DEF Named
 <2> HIDE DEF k0
 <2>1. "auto" \in Makers /\ "card" \in Wants
   BY DEF Makers, Wants
 <2> DEFINE c == Decided("auto", "card", k0)
 <2>2. /\ c \in LocalsType /\ c.pc = "apply"
       /\ c.acts = loop.acts /\ c.cActs = loop.cActs /\ c.steps = loop.steps
       /\ c.seen = loop.seen /\ c.rejected = loop.rejected
       /\ c.by = "auto" /\ c.want = "card" /\ c.key = k0 /\ c.from = loop.seen
   BY <1>2, <2>0, <2>1, DecidedIs
 <2>3. loop' = [c EXCEPT !.refused = FALSE] /\ ~ loop.rejected
   BY DEF AutoCard, ByItself, Automatic, k0
 <2> HIDE DEF c
 <2>4. /\ loop' \in LocalsType /\ loop'.pc = "apply" /\ loop'.refused = FALSE
       /\ loop'.acts = loop.acts /\ loop'.cActs = loop.cActs /\ loop'.steps = loop.steps
       /\ loop'.seen = loop.seen /\ loop'.rejected = loop.rejected
       /\ loop'.by = "auto" /\ loop'.want = "card" /\ loop'.key = k0
       /\ loop'.from = loop.seen
   BY <1>2, <2>2, <2>3 DEF LocalsType
 <2>5. LocalsOK(drive', loop', trace)
   BY <1>1, <2>0, <2>3, <2>4, DecidedFits
 <2>6. QED
   BY <1>1, <2>5
<1>5. QED
  BY <1>3, <1>4

LEMMA RecoverChoiceKeeps ==
    ASSUME DriveConstants, DriveInv, RecoverChoice
    PROVE  MemoryOK(drive', trace') /\ LocalsOK(drive', loop', trace')
<1>1. /\ loop.pc = "top" /\ loop.steps < MaxSteps /\ trace' = trace /\ MemoryOK(drive, trace)
  BY DriveFacts DEF RecoverChoice, ByItself, Top, HasBudget, Env
<1>2. loop.seen \in site.pages
  BY <1>1, RestFacts
<1>3. MemoryOK(drive', trace')
 <2> DEFINE d == Binds(FreshPage(drive))
 <2>1. d \in MemoryType /\ MemoryOK(d, trace)
   BY <1>1, <1>2, BindsFits, FreshPageFits
 <2>2. drive' = [d EXCEPT !.absent = FALSE]
   BY DEF RecoverChoice
 <2> HIDE DEF d
 <2>3. /\ drive' \in MemoryType /\ drive'.jev = d.jev
       /\ drive'.dead = d.dead /\ drive'.deadOn = d.deadOn
   BY <2>1, <2>2 DEF MemoryType
 <2>4. QED
   BY <1>1, <2>1, <2>3, MemoryKept
<1>4. LocalsOK(drive', loop', trace')
 <2> DEFINE k0 == (CHOOSE k \in site.keys : TRUE)
 <2>0. k0 \in Named /\ k0 \in site.keys
   BY DriveFacts, SiteFacts DEF Named
 <2> HIDE DEF k0
 <2>1. "recover" \in Makers /\ "act" \in Wants
   BY DEF Makers, Wants
 <2> DEFINE c == Decided("recover", "act", k0)
 <2>2. /\ c \in LocalsType /\ c.pc = "apply"
       /\ c.acts = loop.acts /\ c.cActs = loop.cActs /\ c.steps = loop.steps
       /\ c.seen = loop.seen /\ c.rejected = loop.rejected
       /\ c.by = "recover" /\ c.want = "act" /\ c.key = k0 /\ c.from = loop.seen
   BY <1>2, <2>0, <2>1, DecidedIs
 <2>3. loop' = [c EXCEPT !.refused = FALSE, !.yield = FALSE] /\ ~ loop.rejected
   BY DEF RecoverChoice, ByItself, Automatic, k0
 <2> HIDE DEF c
 <2>4. /\ loop' \in LocalsType /\ loop'.pc = "apply" /\ loop'.refused = FALSE
       /\ loop'.acts = loop.acts /\ loop'.cActs = loop.cActs /\ loop'.steps = loop.steps
       /\ loop'.seen = loop.seen /\ loop'.rejected = loop.rejected
       /\ loop'.by = "recover" /\ loop'.want = "act" /\ loop'.key = k0
       /\ loop'.from = loop.seen
   BY <1>2, <2>2, <2>3 DEF LocalsType
 <2>5. LocalsOK(drive', loop', trace)
   BY <1>1, <2>0, <2>3, <2>4, DecidedFits
 <2>6. QED
   BY <1>1, <2>5
<1>5. QED
  BY <1>3, <1>4

LEMMA AutoInboxKeeps ==
    ASSUME DriveConstants, DriveInv, AutoInbox
    PROVE  MemoryOK(drive', trace') /\ LocalsOK(drive', loop', trace')
<1>1. /\ loop.pc = "top" /\ loop.steps < MaxSteps /\ trace' = trace /\ MemoryOK(drive, trace)
  BY DriveFacts DEF AutoInbox, ByItself, Top, HasBudget, Env
<1>2. loop.seen \in site.pages
  BY <1>1, RestFacts
<1>3. MemoryOK(drive', trace')
  BY <1>1, <1>2, FreshPageFits DEF AutoInbox
<1>4. LocalsOK(drive', loop', trace')
 <2> DEFINE k0 == "INBOX"
 <2>0. k0 \in Named
   BY DEF Named
 <2> HIDE DEF k0
 <2>1. "auto" \in Makers /\ "inbox" \in Wants
   BY DEF Makers, Wants
 <2> DEFINE c == Decided("auto", "inbox", k0)
 <2>2. /\ c \in LocalsType /\ c.pc = "apply"
       /\ c.acts = loop.acts /\ c.cActs = loop.cActs /\ c.steps = loop.steps
       /\ c.seen = loop.seen /\ c.rejected = loop.rejected
       /\ c.by = "auto" /\ c.want = "inbox" /\ c.key = k0 /\ c.from = loop.seen
   BY <1>2, <2>0, <2>1, DecidedIs
 <2>3. loop' = [c EXCEPT !.inbox = TRUE, !.refused = FALSE] /\ ~ loop.rejected
   BY DEF AutoInbox, ByItself, Automatic, k0
 <2> HIDE DEF c
 <2>4. /\ loop' \in LocalsType /\ loop'.pc = "apply" /\ loop'.refused = FALSE
       /\ loop'.acts = loop.acts /\ loop'.cActs = loop.cActs /\ loop'.steps = loop.steps
       /\ loop'.seen = loop.seen /\ loop'.rejected = loop.rejected
       /\ loop'.by = "auto" /\ loop'.want = "inbox" /\ loop'.key = k0
       /\ loop'.from = loop.seen
   BY <1>2, <2>2, <2>3 DEF LocalsType
 <2>i. k0 = "INBOX"
   BY DEF k0
 <2>5. LocalsOK(drive', loop', trace)
   BY <1>1, <2>0, <2>3, <2>4, DecidedFits, <2>i
 <2>6. QED
   BY <1>1, <2>5
<1>5. QED
  BY <1>3, <1>4

LEMMA AutoWaitKeeps ==
    ASSUME DriveConstants, DriveInv, AutoWait
    PROVE  MemoryOK(drive', trace') /\ LocalsOK(drive', loop', trace')
<1>1. /\ loop.pc = "top" /\ loop.steps < MaxSteps /\ trace' = trace /\ MemoryOK(drive, trace)
  BY DriveFacts DEF AutoWait, ByItself, Top, HasBudget, Env
<1>2. loop.seen \in site.pages
  BY <1>1, RestFacts
<1>3. MemoryOK(drive', trace')
  BY <1>1, <1>2, FreshPageFits DEF AutoWait
<1>4. LocalsOK(drive', loop', trace')
 <2> DEFINE k0 == Nothing
 <2>0. k0 \in Named
   BY DEF Named
 <2> HIDE DEF k0
 <2>1. "auto" \in Makers /\ "wait" \in Wants
   BY DEF Makers, Wants
 <2> DEFINE c == Decided("auto", "wait", k0)
 <2>2. /\ c \in LocalsType /\ c.pc = "apply"
       /\ c.acts = loop.acts /\ c.cActs = loop.cActs /\ c.steps = loop.steps
       /\ c.seen = loop.seen /\ c.rejected = loop.rejected
       /\ c.by = "auto" /\ c.want = "wait" /\ c.key = k0 /\ c.from = loop.seen
   BY <1>2, <2>0, <2>1, DecidedIs
 <2>3. loop' = [c EXCEPT !.waits = Waits + 1, !.refused = FALSE] /\ ~ loop.rejected
   BY DEF AutoWait, ByItself, Automatic, k0
 <2> HIDE DEF c
 <2>w. Waits + 1 \in Nat
   BY DriveFacts DEF Waits, LocalsType
 <2>4. /\ loop' \in LocalsType /\ loop'.pc = "apply" /\ loop'.refused = FALSE
       /\ loop'.acts = loop.acts /\ loop'.cActs = loop.cActs /\ loop'.steps = loop.steps
       /\ loop'.seen = loop.seen /\ loop'.rejected = loop.rejected
       /\ loop'.by = "auto" /\ loop'.want = "wait" /\ loop'.key = k0
       /\ loop'.from = loop.seen
   BY <1>2, <2>2, <2>3, <2>w DEF LocalsType
 <2>5. LocalsOK(drive', loop', trace)
   BY <1>1, <2>0, <2>3, <2>4, DecidedFits
 <2>6. QED
   BY <1>1, <2>5
<1>5. QED
  BY <1>3, <1>4

LEMMA MissingKeeps ==
    ASSUME DriveConstants, DriveInv, Missing
    PROVE  MemoryOK(drive', trace') /\ LocalsOK(drive', loop', trace')
<1>1. drive' = drive /\ trace' = trace /\ loop \in LocalsType /\ MemoryOK(drive, trace)
  BY DriveFacts DEF Missing, Env
<1>2. "needs_value" \in Endings
  BY DEF Endings, Wants
<1>3. QED
  BY <1>1, <1>2, EndedFits DEF Missing

LEMMA CheckboxKeeps ==
    ASSUME DriveConstants, DriveInv, Checkbox
    PROVE  MemoryOK(drive', trace') /\ LocalsOK(drive', loop', trace')
<1>1. /\ loop.pc = "top" /\ loop.steps < MaxSteps /\ trace' = trace
      /\ loop \in LocalsType /\ drive \in MemoryType /\ MemoryOK(drive, trace)
      /\ MaxSteps \in Nat /\ loop.steps \in Nat /\ loop.acts \in Nat
  BY DriveFacts, BoundFacts DEF Checkbox, ByItself, Top, HasBudget, Env, LocalsType
<1>2. /\ loop.acts = loop.cActs /\ loop.cActs <= loop.steps /\ loop.seen \in site.pages
      /\ trace.owed => loop.rejected
  BY <1>1, RestFacts
<1>3. MemoryOK(drive', trace')
 <2> DEFINE d == FreshPage(drive)
 <2>1. d \in MemoryType /\ MemoryOK(d, trace)
   BY <1>2, FreshPageFits
 <2>2. drive' = [d EXCEPT !.pressed = @ \cup {loop.seen}]
   BY DEF Checkbox
 <2> HIDE DEF d
 <2>3. /\ drive' \in MemoryType /\ drive'.jev = d.jev
       /\ drive'.dead = d.dead /\ drive'.deadOn = d.deadOn
   BY <1>2, <2>1, <2>2 DEF MemoryType
 <2>4. QED
   BY <1>1, <2>1, <2>3, MemoryKept
<1> DEFINE c(n) == [loop EXCEPT !.acts = n, !.refused = FALSE]
           e(n) == [c(n) EXCEPT !.seen = pageNow']
<1>4. /\ pageNow' \in site.pages
      /\ \E n \in {loop.acts, loop.acts + 1} : loop' \in {Ended(c(n), "evaluate_timeout"), Spend(e(n))}
 <2>1. PICK found \in BOOLEAN :
         LET b == [loop EXCEPT !.acts = IF found THEN @ + 1 ELSE @, !.refused = FALSE]
         IN  loop' \in {Ended(b, "evaluate_timeout"), Spend([b EXCEPT !.seen = pageNow'])}
   BY DEF Checkbox
 <2>2. pageNow' \in site.pages
   BY DEF Checkbox
 <2>3. CASE found
  <3>1. [loop EXCEPT !.acts = IF found THEN @ + 1 ELSE @, !.refused = FALSE] = c(loop.acts + 1)
    BY <2>3
  <3>2. QED
    BY <2>1, <2>2, <3>1
 <2>4. CASE ~ found
  <3>1. [loop EXCEPT !.acts = IF found THEN @ + 1 ELSE @, !.refused = FALSE] = c(loop.acts)
    BY <2>4
  <3>2. QED
    BY <2>1, <2>2, <3>1
 <2>5. QED
   BY <2>3, <2>4
<1>5. PICK n \in {loop.acts, loop.acts + 1} : loop' \in {Ended(c(n), "evaluate_timeout"), Spend(e(n))}
  BY <1>4
<1>6. n \in Nat /\ pageNow' \in SomePage
  BY <1>1, <1>4 DEF SomePage
<1>7. c(n) \in LocalsType
  BY <1>1, <1>6 DEF LocalsType
<1>8. /\ e(n) \in LocalsType /\ e(n).pc = "top" /\ e(n).acts = n /\ e(n).cActs = loop.cActs
      /\ e(n).steps = loop.steps /\ e(n).seen = pageNow' /\ e(n).rejected = loop.rejected
  BY <1>1, <1>6 DEF LocalsType
<1> HIDE DEF c, e
<1>9. LocalsOK(drive', Spend(e(n)), trace')
  BY <1>1, <1>2, <1>4, <1>6, <1>8, SpentFits
<1>10. LocalsOK(drive', Ended(c(n), "evaluate_timeout"), trace')
  BY <1>7, EndedFits DEF Endings
<1>11. QED
  BY <1>3, <1>5, <1>9, <1>10

LEMMA BusyEndsKeeps ==
    ASSUME DriveConstants, DriveInv, BusyEnds
    PROVE  MemoryOK(drive', trace') /\ LocalsOK(drive', loop', trace')
<1>1. /\ loop.pc = "top" /\ loop.steps < MaxSteps /\ trace' = trace
      /\ loop \in LocalsType /\ drive \in MemoryType /\ MemoryOK(drive, trace)
      /\ MaxSteps \in Nat /\ loop.steps \in Nat /\ loop.acts \in Nat
  BY DriveFacts, BoundFacts DEF BusyEnds, ByItself, Top, HasBudget, Env, LocalsType
<1>2. /\ loop.acts = loop.cActs /\ loop.cActs <= loop.steps /\ loop.seen \in site.pages
      /\ trace.owed => loop.rejected
  BY <1>1, RestFacts
<1>3. MemoryOK(drive', trace')
  BY <1>1, <1>2, FreshPageFits DEF BusyEnds
<1>4. CASE loop' = Ended(loop, "stuck")
  BY <1>1, <1>3, <1>4, EndedFits DEF Endings, Wants
<1>5. CASE loop' = GoesTo([loop EXCEPT !.terminal = TRUE, !.refused = FALSE], "ask")
 <2>1. /\ loop' \in LocalsType /\ loop'.pc = "ask" /\ loop'.acts = loop.acts
       /\ loop'.cActs = loop.cActs /\ loop'.steps = loop.steps /\ loop'.seen = loop.seen
       /\ loop'.rejected = loop.rejected
   BY <1>1, <1>5 DEF GoesTo, LocalsType, Steps
 <2>2. LocalsOK(drive', loop', trace')
   BY <1>1, <1>2, <2>1, PausedFits
 <2>3. QED
   BY <1>3, <2>2
<1>6. QED
  BY <1>4, <1>5 DEF BusyEnds

LEMMA SolveKeeps ==
    ASSUME DriveConstants, DriveInv, Solve
    PROVE  MemoryOK(drive', trace') /\ LocalsOK(drive', loop', trace')
<1>1. /\ loop.pc = "top" /\ loop.steps < MaxSteps /\ trace' = trace
      /\ loop \in LocalsType /\ drive \in MemoryType /\ MemoryOK(drive, trace)
      /\ MaxSteps \in Nat /\ loop.steps \in Nat /\ loop.acts \in Nat
  BY DriveFacts, BoundFacts DEF Solve, ByItself, Top, HasBudget, Env, LocalsType
<1>2. /\ loop.acts = loop.cActs /\ loop.cActs <= loop.steps /\ loop.seen \in site.pages
      /\ trace.owed => loop.rejected
  BY <1>1, RestFacts
<1> DEFINE c == [loop EXCEPT !.refused = FALSE, !.waits = Waits, !.seen = pageNow']
           d == FreshPage(drive)
<1>3. pageNow' \in site.pages /\ Waits \in Nat /\ pageNow' \in SomePage
  BY <1>1 DEF Solve, Waits, LocalsType, SomePage
<1>4. /\ c \in LocalsType /\ c.pc = "top" /\ c.acts = loop.acts /\ c.cActs = loop.cActs
      /\ c.steps = loop.steps /\ c.seen = pageNow' /\ c.rejected = loop.rejected
  BY <1>1, <1>3 DEF LocalsType
<1>5. d \in MemoryType /\ MemoryOK(d, trace)
  BY <1>2, FreshPageFits
<1>6. drive' = [d EXCEPT !.spurned = @ \ site.submits] \/ drive' = d
  BY DEF Solve
<1>7. loop' \in {c, Ended(c, "stuck"), Ended(c, "budget"), Ended(c, "evaluate_timeout"), Spend(c)}
  BY DEF Solve
<1> HIDE DEF c, d
<1>8. MemoryOK(drive', trace')
 <2>1. CASE drive' = [d EXCEPT !.spurned = @ \ site.submits]
  <3>1. /\ drive' \in MemoryType /\ drive'.jev = d.jev
        /\ drive'.dead = d.dead /\ drive'.deadOn = d.deadOn
    BY <1>5, <2>1 DEF MemoryType
  <3>2. QED
    BY <1>1, <1>5, <3>1, MemoryKept
 <2>2. QED
   BY <1>1, <1>5, <1>6, <2>1
<1>9. LocalsOK(drive', c, trace')
  BY <1>1, <1>2, <1>3, <1>4, PausedFits
<1>10. LocalsOK(drive', Spend(c), trace')
  BY <1>1, <1>2, <1>3, <1>4, SpentFits
<1>11. \A t \in {"stuck", "budget", "evaluate_timeout"} : LocalsOK(drive', Ended(c, t), trace')
  BY <1>4, EndedFits DEF Endings, Wants
<1>12. QED
  BY <1>7, <1>8, <1>9, <1>10, <1>11

LEMMA NothingAutomaticKeeps ==
    ASSUME DriveConstants, DriveInv, NothingAutomatic
    PROVE  MemoryOK(drive', trace') /\ LocalsOK(drive', loop', trace')
<1>1. /\ loop.pc = "top" /\ loop.steps < MaxSteps /\ trace' = trace
      /\ loop \in LocalsType /\ drive \in MemoryType /\ MemoryOK(drive, trace)
      /\ MaxSteps \in Nat /\ loop.steps \in Nat /\ loop.acts \in Nat
  BY DriveFacts, BoundFacts DEF NothingAutomatic, ByItself, Top, HasBudget, Env, LocalsType
<1>2. /\ loop.acts = loop.cActs /\ loop.cActs <= loop.steps /\ loop.seen \in site.pages
      /\ trace.owed => loop.rejected
  BY <1>1, RestFacts
<1>3. MemoryOK(drive', trace')
 <2> DEFINE d == FreshPage(drive)
 <2>1. d \in MemoryType /\ MemoryOK(d, trace)
   BY <1>2, FreshPageFits
 <2>2. drive' = [d EXCEPT !.absent = FALSE] \/ drive' = drive
   BY DEF NothingAutomatic
 <2> HIDE DEF d
 <2>3. CASE drive' = [d EXCEPT !.absent = FALSE]
  <3>1. /\ drive' \in MemoryType /\ drive'.jev = d.jev
        /\ drive'.dead = d.dead /\ drive'.deadOn = d.deadOn
    BY <2>1, <2>3 DEF MemoryType
  <3>2. QED
    BY <1>1, <2>1, <3>1, MemoryKept
 <2>4. QED
   BY <1>1, <2>2, <2>3
<1> DEFINE w == IF Automatic THEN Waits ELSE loop.waits
           y == IF Automatic THEN FALSE ELSE loop.yield
<1>4. w \in Nat /\ y \in BOOLEAN
  BY <1>1 DEF Waits, LocalsType
<1>5. loop' = GoesTo([loop EXCEPT !.refused = FALSE, !.terminal = FALSE, !.waits = w, !.yield = y], "ask")
  BY <1>1 DEF NothingAutomatic, LocalsType
<1> HIDE DEF w, y
<1>6. /\ loop' \in LocalsType /\ loop'.pc = "ask" /\ loop'.acts = loop.acts
      /\ loop'.cActs = loop.cActs /\ loop'.steps = loop.steps /\ loop'.seen = loop.seen
      /\ loop'.rejected = loop.rejected
  BY <1>1, <1>4, <1>5 DEF GoesTo, LocalsType, Steps
<1>7. LocalsOK(drive', loop', trace')
  BY <1>1, <1>2, <1>6, PausedFits
<1>8. QED
  BY <1>3, <1>7

LEMMA AskKeeps ==
    ASSUME DriveConstants, DriveInv, Ask
    PROVE  MemoryOK(drive', trace') /\ LocalsOK(drive', loop', trace')
<1>1. /\ loop.pc = "ask" /\ trace' = trace /\ loop \in LocalsType
      /\ drive \in MemoryType /\ MemoryOK(drive, trace) /\ drive.jev \in Nat /\ MaxJev \in Nat
  BY DriveFacts, BoundFacts DEF Ask, Env
<1>2. /\ loop.acts = loop.cActs /\ loop.cActs <= loop.steps /\ loop.seen \in site.pages
      /\ (trace.owed => loop.rejected) /\ loop.steps <= MaxSteps
  BY <1>1, RestFacts
<1>3. "budget" \in Endings /\ "no_progress" \in Endings
  BY DEF Endings, Wants
<1>4. CASE loop' = Ended(loop, "budget") /\ UNCHANGED drive
  BY <1>1, <1>3, <1>4, EndedFits
<1>5. Spurned \in SUBSET (site.keys \cup {"INBOX"})
  BY <1>1 DEF Spurned, MemoryType
<1>6. CASE loop' = Ended(loop, "no_progress") /\ drive' = [drive EXCEPT !.spurned = Spurned]
 <2>1. /\ drive' \in MemoryType /\ drive'.jev = drive.jev
       /\ drive'.dead = drive.dead /\ drive'.deadOn = drive.deadOn
   BY <1>1, <1>5, <1>6 DEF MemoryType
 <2>2. QED
   BY <1>1, <1>3, <1>6, <2>1, EndedFits, MemoryKept
<1>7. CASE /\ ~ Capped /\ loop' = GoesTo(loop, "asked")
           /\ drive' = [drive EXCEPT !.spurned = Spurned, !.bound = loop.seen,
                                     !.consumed = IF drive.bound # loop.seen THEN Nothing ELSE @]
 <2> DEFINE v == IF drive.bound # loop.seen THEN Nothing ELSE drive.consumed
 <2>1. v \in Named /\ loop.seen \in SomePage
   BY <1>1, <1>2 DEF MemoryType, Named, SomePage
 <2>2. drive' = [drive EXCEPT !.spurned = Spurned, !.bound = loop.seen, !.consumed = v]
   BY <1>1, <1>7 DEF MemoryType
 <2> HIDE DEF v
 <2>3. /\ drive' \in MemoryType /\ drive'.jev = drive.jev
       /\ drive'.dead = drive.dead /\ drive'.deadOn = drive.deadOn
   BY <1>1, <1>5, <2>1, <2>2 DEF MemoryType
 <2>4. MemoryOK(drive', trace')
   BY <1>1, <2>3, MemoryKept
 <2>5. drive'.jev < MaxJev
   BY <1>1, <1>7, <2>3 DEF Capped
 <2>6. /\ loop' \in LocalsType /\ loop'.pc = "asked" /\ loop'.acts = loop.acts
       /\ loop'.cActs = loop.cActs /\ loop'.steps = loop.steps /\ loop'.seen = loop.seen
       /\ loop'.rejected = loop.rejected
   BY <1>1, <1>7 DEF GoesTo, LocalsType, Steps
 <2>7. LocalsOK(drive', loop', trace')
   BY <1>1, <1>2, <2>5, <2>6, PausedFits
 <2>8. QED
   BY <2>4, <2>7
<1>8. QED
  BY <1>4, <1>6, <1>7 DEF Ask

LEMMA DecidesKeeps ==
    ASSUME DriveConstants, DriveInv, NEW n \in 1 .. 2, Decides(n)
    PROVE  MemoryOK(drive', trace') /\ LocalsOK(drive', loop', trace')
<1>1. /\ /\ loop.pc = "asked" /\ loop \in LocalsType
      /\ drive \in MemoryType /\ trace \in TraceType
      /\ MemoryOK(drive, trace) /\ drive.jev \in Nat /\ MaxJev \in Nat /\ trace.dialogs \in Nat
  BY DriveFacts, BoundFacts DEF Decides
<1>2. /\ loop.acts = loop.cActs /\ loop.cActs <= loop.steps /\ loop.seen \in site.pages
      /\ loop.steps <= MaxSteps /\ drive.jev < MaxJev
  BY <1>1, RestFacts
<1>3. MemoryOK(drive', trace')
 <2>0. drive.jev + n \in Nat
   BY <1>1
 <2>1. /\ drive' \in MemoryType /\ drive'.jev = drive.jev + n
       /\ drive'.dead = drive.dead /\ drive'.deadOn = drive.deadOn
   BY <1>1, <2>0 DEF Decides, MemoryType
 <2>2. /\ trace' \in TraceType /\ trace'.dialogs = trace.dialogs
       /\ trace'.reached = trace.reached /\ trace'.fellback = trace.fellback
   BY <1>1 DEF Decides, TraceType
 <2>3. drive'.jev <= MaxJev + 1 + trace'.dialogs
   BY <1>1, <1>2, <2>1, <2>2
 <2>4. Tried(drive', trace')
   BY <1>1, <2>1, <2>2 DEF MemoryOK, Tried, Met
 <2>5. QED
   BY <2>1, <2>2, <2>3, <2>4 DEF MemoryOK
<1>4. trace'.owed = FALSE
  BY <1>1 DEF Decides, TraceType
<1> DEFINE c(want, k) == [Decided("model", want, k) EXCEPT !.rejected = FALSE]
           W == {"act", "card", "complete", "stuck", "low_confidence", "none_of_these", "wait",
                 "go_back", "replan", "needs_value", "invalid_answer"}
<1>5. ASSUME NEW w \in W, NEW k \in Named, w \in {"act", "card"} => k \in site.keys,
             loop' = c(w, k)
      PROVE  LocalsOK(drive', loop', trace')
 <2>1. "model" \in Makers /\ w \in Wants
   BY DEF Makers, Wants
 <2> DEFINE e == Decided("model", w, k)
 <2>2. /\ e \in LocalsType /\ e.pc = "apply" /\ e.acts = loop.acts
       /\ e.cActs = loop.cActs /\ e.steps = loop.steps /\ e.seen = loop.seen
       /\ e.by = "model" /\ e.want = w /\ e.key = k /\ e.from = loop.seen
   BY <1>2, <2>1, DecidedIs
 <2>3. loop' = [e EXCEPT !.rejected = FALSE]
   BY <1>5
 <2> HIDE DEF e
 <2>4. /\ loop' \in LocalsType /\ loop'.pc = "apply" /\ loop'.acts = loop.acts
       /\ loop'.cActs = loop.cActs /\ loop'.steps = loop.steps /\ loop'.seen = loop.seen
       /\ loop'.by = "model" /\ loop'.want = w /\ loop'.key = k /\ loop'.from = loop.seen
   BY <2>2, <2>3 DEF LocalsType
 <2>5. Common(loop')
   BY <1>2, <1>5, <2>4 DEF Common, Nothing
 <2>6. QED
   BY <1>2, <1>4, <2>4, <2>5, ApplyFits
<1>6. LocalsOK(drive', Ended(loop, "no_progress"), trace')
  BY <1>1, EndedFits DEF Endings
<1>7. Offered \subseteq site.keys /\ site.keys \subseteq Named /\ Nothing \in Named
  BY DEF Offered, Named
<1>8. \/ loop' = Ended(loop, "no_progress")
      \/ \E w \in W, k \in Named : (w \in {"act", "card"} => k \in site.keys) /\ loop' = c(w, k)
 <2>1. CASE \E k \in Offered : loop' = IF drive.consumed = k THEN Ended(loop, "no_progress") ELSE c("act", k)
   BY <1>7, <2>1
 <2>2. CASE \E w \in {"complete", "stuck", "low_confidence", "none_of_these"} : loop' = c(w, Nothing)
   BY <1>7, <2>2
 <2>3. CASE loop' \in {c("wait", Nothing), c("go_back", Nothing), c("replan", Nothing),
                       c("needs_value", Nothing), c("invalid_answer", Nothing)}
   BY <1>7, <2>3
 <2>4. CASE \E k \in Offered : loop' = c("card", k)
   BY <1>7, <2>4
 <2>5. QED
   BY <2>1, <2>2, <2>3, <2>4 DEF Decides
<1> HIDE DEF c
<1>9. QED
  BY <1>3, <1>5, <1>6, <1>8

LEMMA JevFailsKeeps ==
    ASSUME DriveConstants, DriveInv, JevFails
    PROVE  MemoryOK(drive', trace') /\ LocalsOK(drive', loop', trace')
<1>1. /\ /\ loop.pc = "asked" /\ loop \in LocalsType
      /\ drive \in MemoryType /\ trace' = trace
      /\ MemoryOK(drive, trace) /\ drive.jev \in Nat /\ MaxJev \in Nat /\ trace.dialogs \in Nat
  BY DriveFacts, BoundFacts DEF JevFails, Env
<1>2. drive.jev < MaxJev
  BY <1>1, RestFacts
<1>3. PICK n \in 0 .. 1 : drive' = [drive EXCEPT !.jev = @ + n]
  BY DEF JevFails
<1>4. drive.jev + n \in Nat
  BY <1>1
<1>5. /\ drive' \in MemoryType /\ drive'.jev = drive.jev + n
      /\ drive'.dead = drive.dead /\ drive'.deadOn = drive.deadOn
  BY <1>1, <1>3, <1>4 DEF MemoryType
<1>6. drive'.jev <= MaxJev + 1 + trace.dialogs
  BY <1>1, <1>2, <1>5
<1>7. MemoryOK(drive', trace')
  BY <1>1, <1>5, <1>6 DEF MemoryOK, Tried
<1>8. LocalsOK(drive', Ended(loop, "jev_unavailable"), trace')
  BY <1>1, EndedFits DEF Endings
<1>9. QED
  BY <1>7, <1>8 DEF JevFails

LEMMA QuestionKeeps ==
    ASSUME DriveConstants, DriveInv, Question
    PROVE  MemoryOK(drive', trace') /\ LocalsOK(drive', loop', trace')
<1>1. /\ loop.pc = "apply" /\ trace' = trace /\ loop \in LocalsType
      /\ drive \in MemoryType /\ MemoryOK(drive, trace)
  BY DriveFacts DEF Question, Applies, Env
<1>2. loop.want \in Wants /\ loop.want \in Endings /\ "stuck" \in Endings /\ loop.seen \in SomePage
  BY <1>1 DEF Endings, Wants, LocalsType
<1>3. \A t \in {loop.want, "stuck"} : LocalsOK(drive', Ended(loop, t), trace')
  BY <1>1, <1>2, EndedFits
<1>4. loop' \in {Ended(loop, loop.want), Ended(loop, "stuck")}
  BY DEF Question
<1>5. CASE drive' = drive
  BY <1>1, <1>3, <1>4, <1>5
<1>6. CASE drive' = [drive EXCEPT !.asked = {<<loop.want, loop.seen>>}]
 <2> DEFINE q == {<<loop.want, loop.seen>>}
 <2>0. q \in SUBSET (Wants \X SomePage) /\ drive' = [drive EXCEPT !.asked = q]
   BY <1>2, <1>6
 <2> HIDE DEF q
 <2>1. /\ drive' \in MemoryType /\ drive'.jev = drive.jev
       /\ drive'.dead = drive.dead /\ drive'.deadOn = drive.deadOn
   BY <1>1, <2>0 DEF MemoryType
 <2>2. QED
   BY <1>1, <1>3, <1>4, <2>1, MemoryKept
<1>7. QED
  BY <1>5, <1>6 DEF Question

LEMMA NoneOfTheseKeeps ==
    ASSUME DriveConstants, DriveInv, NoneOfThese
    PROVE  MemoryOK(drive', trace') /\ LocalsOK(drive', loop', trace')
<1>1. drive' = drive /\ trace' = trace /\ loop \in LocalsType /\ MemoryOK(drive, trace)
  BY DriveFacts DEF NoneOfThese, Env
<1>2. "stuck" \in Endings
  BY DEF Endings, Wants
<1>3. QED
  BY <1>1, <1>2, EndedFits DEF NoneOfThese

(* A decision that is refused is over, and nothing was done. *)
LEMMA RefusedFits ==
    ASSUME DriveConstants, DriveInv, loop.pc \in {"apply", "check"},
           NEW p \in site.pages, NEW q \in site.pages, NEW c \in LocalsType,
           c.acts = loop.acts, c.cActs = loop.cActs, c.steps = loop.steps,
           c.seen = p, c.by = loop.by, c.want = loop.want, c.key = loop.key,
           c.rejected = loop.rejected, NEW d
    PROVE  LocalsOK(d, Refuse(c), trace) /\ LocalsOK(d, GoesTo(c, "after"), trace)
<1>1. /\ Common(loop) /\ loop.acts = loop.cActs /\ (trace.owed => loop.rejected)
  BY HeldFacts
<1>2. /\ Refuse(c) \in LocalsType /\ Refuse(c).pc = "after" /\ Refuse(c).acts = c.acts
      /\ Refuse(c).cActs = c.cActs /\ Refuse(c).steps = c.steps /\ Refuse(c).seen = c.seen
      /\ Refuse(c).by = c.by /\ Refuse(c).want = c.want /\ Refuse(c).key = c.key
      /\ Refuse(c).rejected = c.rejected
  BY DEF Refuse, GoesTo, LocalsType, Steps, Working
<1>3. /\ GoesTo(c, "after") \in LocalsType /\ GoesTo(c, "after").pc = "after"
      /\ GoesTo(c, "after").acts = c.acts
      /\ GoesTo(c, "after").cActs = c.cActs /\ GoesTo(c, "after").steps = c.steps
      /\ GoesTo(c, "after").seen = c.seen /\ GoesTo(c, "after").by = c.by
      /\ GoesTo(c, "after").want = c.want /\ GoesTo(c, "after").key = c.key
      /\ GoesTo(c, "after").rejected = c.rejected
  BY DEF GoesTo, LocalsType, Steps, Working
<1>4. Common(Refuse(c)) /\ Common(GoesTo(c, "after"))
  BY <1>1, <1>2, <1>3 DEF Common
<1>5. LocalsOK(d, Refuse(c), trace)
  BY <1>1, <1>2, <1>4, AfterFits
<1>6. LocalsOK(d, GoesTo(c, "after"), trace)
  BY <1>1, <1>3, <1>4, AfterFits
<1>7. QED
  BY <1>5, <1>6

LEMMA CompleteKeeps ==
    ASSUME DriveConstants, DriveInv, Complete
    PROVE  MemoryOK(drive', trace') /\ LocalsOK(drive', loop', trace')
<1>1. /\ loop.pc = "apply" /\ trace' = trace /\ loop \in LocalsType /\ pageNow \in site.pages
      /\ drive \in MemoryType /\ MemoryOK(drive, trace) /\ pageNow \in SomePage
  BY DriveFacts DEF Complete, Applies, Env
<1> DEFINE c == [loop EXCEPT !.seen = pageNow]
<1>2. /\ c \in LocalsType /\ c.acts = loop.acts /\ c.cActs = loop.cActs /\ c.steps = loop.steps
      /\ c.seen = pageNow /\ c.by = loop.by /\ c.want = loop.want /\ c.key = loop.key
      /\ c.rejected = loop.rejected
  BY <1>1 DEF LocalsType
<1>3. loop' \in {Ended(c, "evaluate_timeout"), Ended(c, "complete"), Ended(c, "stuck"), Refuse(c)}
  BY DEF Complete
<1>4. \/ drive' = drive \/ drive' = [drive EXCEPT !.consumed = Nothing]
      \/ drive' = [drive EXCEPT !.consumed = Nothing, !.stall = @ \cup {pageNow}]
  BY DEF Complete
<1> HIDE DEF c
<1>5. LocalsOK(drive', Refuse(c), trace')
  BY <1>1, <1>2, RefusedFits
<1>6. \A t \in {"evaluate_timeout", "complete", "stuck"} : LocalsOK(drive', Ended(c, t), trace')
  BY <1>2, EndedFits DEF Endings, Wants
<1>7. /\ drive' \in MemoryType /\ drive'.jev = drive.jev
      /\ drive'.dead = drive.dead /\ drive'.deadOn = drive.deadOn
 <2>1. CASE drive' = [drive EXCEPT !.consumed = Nothing]
   BY <1>1, <2>1 DEF MemoryType, Named
 <2>2. CASE drive' = [drive EXCEPT !.consumed = Nothing, !.stall = @ \cup {pageNow}]
   BY <1>1, <2>2 DEF MemoryType, Named
 <2>3. QED
   BY <1>1, <1>4, <2>1, <2>2
<1>8. QED
  BY <1>1, <1>3, <1>5, <1>6, <1>7, MemoryKept

LEMMA WaitKeeps ==
    ASSUME DriveConstants, DriveInv, Wait
    PROVE  MemoryOK(drive', trace') /\ LocalsOK(drive', loop', trace')
<1>1. /\ loop.pc = "apply" /\ trace' = trace /\ loop \in LocalsType /\ pageNow \in site.pages
      /\ drive \in MemoryType /\ MemoryOK(drive, trace) /\ pageNow \in SomePage
  BY DriveFacts DEF Wait, Applies, Env
<1> DEFINE b == [loop EXCEPT !.seen = pageNow]
           d == [drive EXCEPT !.last = pageNow, !.consumed = Nothing]
           c == GoesTo(b, "after")
<1>2. /\ b \in LocalsType /\ b.acts = loop.acts /\ b.cActs = loop.cActs /\ b.steps = loop.steps
      /\ b.seen = pageNow /\ b.by = loop.by /\ b.want = loop.want /\ b.key = loop.key
      /\ b.rejected = loop.rejected
  BY <1>1 DEF LocalsType
<1>3. /\ loop' \in {Ended(c, "evaluate_timeout"), Ended(c, "no_progress"), c}
      /\ drive' \in {drive, d, MarkDead(d, "WAIT", pageNow)}
  BY DEF Wait
<1>4. /\ d \in MemoryType /\ d.jev = drive.jev
      /\ d.dead = drive.dead /\ d.deadOn = drive.deadOn
  BY <1>1 DEF MemoryType, Named
<1>5. c \in LocalsType
  BY <1>2 DEF GoesTo, LocalsType, Steps, Working
<1> HIDE DEF b, d
<1>6. MemoryOK(d, trace)
  BY <1>1, <1>4, MemoryKept
<1>7. MemoryOK(MarkDead(d, "WAIT", pageNow), trace)
  BY <1>1, <1>6, MarkDeadFits
<1>8. LocalsOK(drive', c, trace')
  BY <1>1, <1>2, RefusedFits
<1> HIDE DEF c
<1>9. \A t \in {"evaluate_timeout", "no_progress"} : LocalsOK(drive', Ended(c, t), trace')
  BY <1>5, EndedFits DEF Endings
<1>10. QED
  BY <1>1, <1>3, <1>6, <1>7, <1>8, <1>9

LEMMA ReplanKeeps ==
    ASSUME DriveConstants, DriveInv, Replan
    PROVE  MemoryOK(drive', trace') /\ LocalsOK(drive', loop', trace')
<1>1. /\ loop.pc = "apply" /\ trace' = trace /\ loop \in LocalsType
      /\ drive \in MemoryType /\ MemoryOK(drive, trace)
  BY DriveFacts DEF Replan, Applies, Env
<1>2. loop.seen \in site.pages
  BY <1>1, HeldFacts
<1>3. CASE loop' = Ended(loop, "no_progress") /\ UNCHANGED drive
  BY <1>1, <1>3, EndedFits DEF Endings
<1>4. CASE /\ drive' = [drive EXCEPT !.stall = @ \cup {loop.seen}, !.consumed = Nothing]
           /\ loop' = GoesTo(loop, "after")
 <2>1. /\ drive' \in MemoryType /\ drive'.jev = drive.jev
       /\ drive'.dead = drive.dead /\ drive'.deadOn = drive.deadOn
   BY <1>1, <1>2, <1>4 DEF MemoryType, Named
 <2>2. LocalsOK(drive', GoesTo(loop, "after"), trace)
   BY <1>1, <1>2, RefusedFits
 <2>3. QED
   BY <1>1, <1>4, <2>1, <2>2, MemoryKept
<1>5. QED
  BY <1>3, <1>4 DEF Replan

LEMMA GoBackKeeps ==
    ASSUME DriveConstants, DriveInv, GoBack
    PROVE  MemoryOK(drive', trace') /\ LocalsOK(drive', loop', trace')
<1>1. /\ loop.pc = "apply" /\ trace' = trace /\ loop \in LocalsType /\ pageNow' \in site.pages
      /\ drive \in MemoryType /\ MemoryOK(drive, trace) /\ loop.want = "go_back"
  BY DriveFacts DEF GoBack, Applies, Env
<1>2. /\ Common(loop) /\ loop.acts = loop.cActs /\ loop.from = loop.seen
      /\ ~ (loop.by = "auto" /\ loop.refused)
      /\ (trace.owed => loop.rejected /\ loop.by = "wallet")
  BY <1>1, HeldFacts
<1>3. MemoryOK(drive', trace')
 <2>1. /\ drive' \in MemoryType /\ drive'.jev = drive.jev
       /\ drive'.dead = drive.dead /\ drive'.deadOn = drive.deadOn
   BY <1>1 DEF GoBack, MemoryType, Named
 <2>2. QED
   BY <1>1, <2>1, MemoryKept
<1>4. CASE loop' = Ended(loop, "evaluate_timeout")
  BY <1>1, <1>3, <1>4, EndedFits DEF Endings
<1>5. CASE loop' = [loop EXCEPT !.pc = "progress", !.acts = @ + 1, !.base = loop.seen,
                                !.seen = pageNow', !.key = Nothing]
 <2>0. loop.acts + 1 \in Nat /\ loop.seen \in SomePage /\ pageNow' \in SomePage /\ Nothing \in Named
   BY <1>1 DEF LocalsType, SomePage, Named
 <2>1. /\ loop' \in LocalsType /\ loop'.pc = "progress" /\ loop'.acts = loop.acts + 1
       /\ loop'.cActs = loop.cActs /\ loop'.steps = loop.steps /\ loop'.seen = pageNow'
       /\ loop'.by = loop.by /\ loop'.want = loop.want /\ loop'.refused = loop.refused
       /\ loop'.rejected = loop.rejected
   BY <1>1, <1>5, <2>0 DEF LocalsType, Steps, Working
 <2>2. Common(loop')
   BY <1>1, <1>2, <2>1 DEF Common
 <2>3. LocalsOK(drive', loop', trace)
   BY <1>1, <1>2, <2>1, <2>2, NotedFits
 <2>4. QED
   BY <1>1, <1>3, <2>3
<1>6. QED
  BY <1>4, <1>5 DEF GoBack

LEMMA GateKeeps ==
    ASSUME DriveConstants, DriveInv, Gate
    PROVE  MemoryOK(drive', trace') /\ LocalsOK(drive', loop', trace')
<1>1. /\ loop.pc = "apply" /\ trace' = trace /\ loop \in LocalsType
      /\ drive \in MemoryType /\ MemoryOK(drive, trace) /\ loop.want \in {"act", "card", "inbox"}
  BY DriveFacts DEF Gate, Applies, Env
<1>2. /\ Common(loop) /\ loop.acts = loop.cActs /\ loop.from = loop.seen
      /\ ~ (loop.by = "auto" /\ loop.refused) /\ (loop.want = "inbox" => loop.key = "INBOX")
      /\ (trace.owed => loop.rejected /\ loop.by = "wallet") /\ loop.seen \in site.pages
  BY <1>1, HeldFacts
<1> DEFINE c == [loop EXCEPT !.base = loop.seen]
<1>3. loop.key \in Named /\ Nothing \in Named /\ loop.seen \in SomePage
  BY <1>1, <1>2 DEF LocalsType, SomePage, Named
<1>4. /\ c \in LocalsType /\ c.pc = "apply" /\ c.acts = loop.acts /\ c.cActs = loop.cActs
      /\ c.steps = loop.steps /\ c.seen = loop.seen /\ c.by = loop.by /\ c.want = loop.want
      /\ c.key = loop.key /\ c.refused = loop.refused /\ c.rejected = loop.rejected
      /\ c.from = loop.from
  BY <1>1, <1>3 DEF LocalsType
<1>5. /\ loop' \in {Refuse(c), Ended(c, "no_progress"), GoesTo(c, "check")}
      /\ drive' = drive \/ \E k \in Named : drive' = [drive EXCEPT !.consumed = k]
  BY <1>3 DEF Gate
<1> HIDE DEF c
<1>6. MemoryOK(drive', trace')
 <2>1. ASSUME NEW k \in Named, drive' = [drive EXCEPT !.consumed = k]
       PROVE  MemoryOK(drive', trace')
  <3>1. /\ drive' \in MemoryType /\ drive'.jev = drive.jev
        /\ drive'.dead = drive.dead /\ drive'.deadOn = drive.deadOn
    BY <1>1, <2>1 DEF MemoryType
  <3>2. QED
    BY <1>1, <3>1, MemoryKept
 <2>2. QED
   BY <1>1, <1>5, <2>1
<1>7. LocalsOK(drive', Refuse(c), trace')
  BY <1>1, <1>2, <1>4, RefusedFits
<1>8. LocalsOK(drive', Ended(c, "no_progress"), trace')
  BY <1>4, EndedFits DEF Endings
<1>9. LocalsOK(drive', GoesTo(c, "check"), trace')
 <2> DEFINE e == GoesTo(c, "check")
 <2>1. /\ e \in LocalsType /\ e.pc = "check" /\ e.acts = loop.acts /\ e.cActs = loop.cActs
       /\ e.steps = loop.steps /\ e.seen = loop.seen /\ e.by = loop.by /\ e.want = loop.want
       /\ e.key = loop.key /\ e.refused = loop.refused /\ e.rejected = loop.rejected
       /\ e.from = loop.from
   BY <1>4 DEF GoesTo, LocalsType, Steps, Working, Acting
 <2> HIDE DEF e
 <2>2. Common(e)
   BY <1>2, <2>1 DEF Common
 <2>3. LocalsOK(drive', e, trace')
   BY <1>1, <1>2, <2>1, <2>2, DoingFits
 <2>4. QED
   BY <2>3 DEF e
<1>10. QED
  BY <1>5, <1>6, <1>7, <1>8, <1>9

LEMMA PreActKeeps ==
    ASSUME DriveConstants, DriveInv, PreAct
    PROVE  MemoryOK(drive', trace') /\ LocalsOK(drive', loop', trace')
<1>1. /\ loop.pc = "check" /\ loop \in LocalsType /\ trace \in TraceType /\ pageNow \in site.pages
      /\ drive \in MemoryType /\ MemoryOK(drive, trace) /\ pageNow \in SomePage
  BY DriveFacts DEF PreAct
<1>2. /\ Common(loop) /\ loop.acts = loop.cActs /\ loop.from = loop.seen
      /\ ~ (loop.by = "auto" /\ loop.refused) /\ (loop.want = "inbox" => loop.key = "INBOX")
      /\ (trace.owed => loop.rejected /\ loop.by = "wallet") /\ loop.seen \in site.pages
      /\ loop.want \in {"act", "card", "inbox"} /\ (loop.want \in {"act", "card"} => loop.key \in site.keys)
  BY <1>1, HeldFacts
<1>3. /\ trace' \in TraceType /\ trace'.checked = pageNow /\ trace'.dialogs = trace.dialogs
      /\ trace'.owed = (trace.owed \/ pageNow # loop.seen)
      /\ trace'.reached = trace.reached /\ trace'.fellback = trace.fellback
  BY <1>1 DEF PreAct, TraceType
<1>4. ASSUME drive' \in MemoryType, drive'.jev = drive.jev, drive'.dead = drive.dead,
             drive'.deadOn = drive.deadOn
      PROVE  MemoryOK(drive', trace')
 <2>1. MemoryOK(drive', trace)
   BY <1>1, <1>4, MemoryKept
 <2>2. QED
   BY <1>3, <2>1, TraceGrows
<1>5. \A t \in {"evaluate_timeout", "stuck"} : LocalsOK(drive', Ended(loop, t), trace')
  BY <1>1, EndedFits DEF Endings, Wants
<1>6. CASE pageNow # loop.seen
 <2> DEFINE c == [loop EXCEPT !.seen = pageNow]
 <2>1. PICK navigated \in BOOLEAN :
          drive' = [drive EXCEPT !.consumed = Nothing, !.absent = @ \/ ~ navigated]
   BY <1>6 DEF PreAct
 <2> DEFINE b == drive.absent \/ ~ navigated
 <2>2. drive' = [drive EXCEPT !.consumed = Nothing, !.absent = b] /\ b \in BOOLEAN
   BY <1>1, <2>1 DEF MemoryType
 <2> HIDE DEF b
 <2>3. /\ drive' \in MemoryType /\ drive'.jev = drive.jev
       /\ drive'.dead = drive.dead /\ drive'.deadOn = drive.deadOn
   BY <1>1, <2>2 DEF MemoryType, Named
 <2> DEFINE e == PageChanged(c)
 <2>4. loop' \in {Ended(loop, "evaluate_timeout"), e}
   BY <1>6 DEF PreAct
 <2>5. /\ e \in LocalsType /\ e.pc = "after" /\ e.acts = loop.acts /\ e.cActs = loop.cActs
       /\ e.steps = loop.steps /\ e.seen = pageNow /\ e.by = loop.by /\ e.want = loop.want
       /\ e.key = loop.key /\ e.rejected = TRUE
   BY <1>1 DEF PageChanged, Refuse, GoesTo, LocalsType, Steps, Working
 <2> HIDE DEF e
 <2>6. Common(e)
   BY <1>1, <1>2, <2>5 DEF Common
 <2>7. LocalsOK(drive', e, trace')
   BY <1>2, <2>5, <2>6, AfterFits
 <2>8. QED
   BY <1>4, <1>5, <2>3, <2>4, <2>7
<1>7. CASE pageNow = loop.seen
 <2>1. \/ loop' = GoesTo(loop, loop.want) /\ drive' = drive
       \/ loop' = Ended(loop, "stuck") /\ drive' = drive
       \/ /\ loop' = Refuse(loop)
          /\ drive' = [drive EXCEPT !.spurned = @ \cup {loop.key}, !.consumed = Nothing]
   BY <1>7 DEF PreAct
 <2>2. MemoryOK(drive', trace')
  <3>1. CASE drive' = [drive EXCEPT !.spurned = @ \cup {loop.key}, !.consumed = Nothing]
   <4>1. loop.key \in site.keys \cup {"INBOX"}
     BY <1>2
   <4>2. /\ drive' \in MemoryType /\ drive'.jev = drive.jev
         /\ drive'.dead = drive.dead /\ drive'.deadOn = drive.deadOn
     BY <1>1, <3>1, <4>1 DEF MemoryType, Named
   <4>3. QED
     BY <1>4, <4>2
  <3>2. QED
    BY <1>1, <1>4, <2>1, <3>1
 <2>3. trace'.owed = trace.owed
   BY <1>1, <1>3, <1>7 DEF TraceType
 <2>4. LocalsOK(drive', GoesTo(loop, loop.want), trace')
  <3> DEFINE e == GoesTo(loop, loop.want)
  <3>1. /\ e \in LocalsType /\ e.pc = loop.want /\ e.acts = loop.acts /\ e.cActs = loop.cActs
        /\ e.steps = loop.steps /\ e.seen = loop.seen /\ e.by = loop.by /\ e.want = loop.want
        /\ e.key = loop.key /\ e.refused = loop.refused /\ e.rejected = loop.rejected
        /\ e.from = loop.from
    BY <1>1, <1>2 DEF GoesTo, LocalsType, Steps, Working, Acting
  <3> HIDE DEF e
  <3>2. Common(e)
    BY <1>2, <3>1 DEF Common
  <3>3. LocalsOK(drive', e, trace')
    BY <1>2, <1>3, <1>7, <2>3, <3>1, <3>2, DoingFits
  <3>4. QED
    BY <3>3 DEF e
 <2>5. LocalsOK(drive', Refuse(loop), trace')
  <3> DEFINE e == Refuse(loop)
  <3>1. /\ e \in LocalsType /\ e.pc = "after" /\ e.acts = loop.acts /\ e.cActs = loop.cActs
        /\ e.steps = loop.steps /\ e.seen = loop.seen /\ e.by = loop.by /\ e.want = loop.want
        /\ e.key = loop.key /\ e.rejected = loop.rejected
    BY <1>1 DEF Refuse, GoesTo, LocalsType, Steps, Working
  <3> HIDE DEF e
  <3>2. Common(e)
    BY <1>2, <3>1 DEF Common
  <3>3. LocalsOK(drive', e, trace')
    BY <1>2, <2>3, <3>1, <3>2, AfterFits
  <3>4. QED
    BY <3>3 DEF e
 <2>6. QED
   BY <1>5, <2>1, <2>2, <2>4, <2>5
<1>8. QED
  BY <1>6, <1>7

LEMMA ActIsRefusedKeeps ==
    ASSUME DriveConstants, DriveInv, ActIsRefused
    PROVE  MemoryOK(drive', trace') /\ LocalsOK(drive', loop', trace')
<1>1. /\ loop.pc = "act" /\ trace' = trace /\ loop \in LocalsType /\ pageNow \in site.pages
      /\ drive \in MemoryType /\ MemoryOK(drive, trace) /\ pageNow \in SomePage
  BY DriveFacts DEF ActIsRefused, Env
<1>2. /\ Common(loop) /\ loop.acts = loop.cActs /\ loop.key \in site.keys
      /\ ~ (loop.by = "auto" /\ loop.refused) /\ (trace.owed => loop.rejected)
  BY <1>1, DoingFacts
<1> DEFINE c == [loop EXCEPT !.yield = TRUE, !.seen = pageNow]
           b == GoesTo(c, "after")
<1>3. /\ c \in LocalsType
      /\ b \in LocalsType /\ b.pc = "after" /\ b.acts = loop.acts /\ b.cActs = loop.cActs
      /\ b.steps = loop.steps /\ b.seen = pageNow /\ b.by = loop.by /\ b.want = loop.want
      /\ b.key = loop.key /\ b.rejected = loop.rejected
  BY <1>1 DEF GoesTo, LocalsType, Steps, Working
<1>4. loop' \in {Ended(c, "evaluate_timeout"), Ended(c, "stuck"), b}
  BY DEF ActIsRefused
<1> HIDE DEF b, c
<1>5. MemoryOK(drive', trace')
 <2> DEFINE d == [drive EXCEPT !.consumed = Nothing]
 <2>0. drive.occluded + 1 \in Nat
   BY <1>1 DEF MemoryType
 <2>1. /\ d \in MemoryType /\ d.jev = drive.jev
       /\ d.dead = drive.dead /\ d.deadOn = drive.deadOn
       /\ d.occluded = drive.occluded
   BY <1>1 DEF MemoryType, Named
 <2>2. \/ drive' = [d EXCEPT !.occluded = @ + 1]
       \/ drive' = [d EXCEPT !.occluded = 0, !.spurned = @ \cup {loop.key}]
   BY DEF ActIsRefused, ActRefused
 <2> HIDE DEF d
 <2>3. /\ drive' \in MemoryType /\ drive'.jev = d.jev
       /\ drive'.dead = d.dead /\ drive'.deadOn = d.deadOn
  <3>1. CASE drive' = [d EXCEPT !.occluded = @ + 1]
    BY <2>0, <2>1, <3>1 DEF MemoryType
  <3>2. CASE drive' = [d EXCEPT !.occluded = 0, !.spurned = @ \cup {loop.key}]
    BY <1>2, <2>1, <3>2 DEF MemoryType
  <3>3. QED
    BY <2>2, <3>1, <3>2
 <2>4. QED
   BY <1>1, <2>1, <2>3, MemoryKept
<1>6. Common(b)
  BY <1>1, <1>2, <1>3 DEF Common
<1>7. LocalsOK(drive', b, trace')
  BY <1>1, <1>2, <1>3, <1>6, AfterFits
<1>8. \A t \in {"evaluate_timeout", "stuck"} : LocalsOK(drive', Ended(c, t), trace')
  BY <1>3, EndedFits DEF Endings, Wants
<1>9. QED
  BY <1>4, <1>5, <1>7, <1>8

LEMMA ActFallsBackKeeps ==
    ASSUME DriveConstants, DriveInv, ActFallsBack
    PROVE  MemoryOK(drive', trace') /\ LocalsOK(drive', loop', trace')
<1>1. /\ loop.pc = "act" /\ loop \in LocalsType /\ pageNow \in site.pages /\ trace \in TraceType
      /\ drive \in MemoryType /\ MemoryOK(drive, trace) /\ pageNow \in SomePage
  BY DriveFacts DEF ActFallsBack
<1>2. /\ Common(loop) /\ loop.acts = loop.cActs /\ loop.key \in site.keys /\ loop.want = "act"
      /\ ~ (loop.by = "auto" /\ loop.refused)
      /\ (trace.owed => loop.rejected /\ loop.by = "wallet")
  BY <1>1, DoingFacts
<1>3. <<loop.base, loop.key>> \in SomePage \X Named
  BY <1>1 DEF LocalsType
<1>4. /\ trace' \in TraceType /\ trace'.dialogs = trace.dialogs /\ trace'.owed = trace.owed
      /\ trace'.reached = trace.reached
      /\ trace'.fellback = trace.fellback \cup {<<loop.base, loop.key>>}
  BY <1>1, <1>3 DEF ActFallsBack, TraceType
<1>5. /\ drive' \in MemoryType /\ drive'.jev = drive.jev
      /\ drive'.dead = drive.dead /\ drive'.deadOn = drive.deadOn
  BY <1>1, <1>2 DEF ActFallsBack, MemoryType, Named
<1>6. MemoryOK(drive', trace')
 <2>1. MemoryOK(drive', trace)
   BY <1>1, <1>5, MemoryKept
 <2>2. QED
   BY <1>4, <2>1, TraceGrows
<1>7. /\ loop' \in LocalsType /\ loop'.pc = "progress" /\ loop'.acts = loop.acts
      /\ loop'.cActs = loop.cActs /\ loop'.steps = loop.steps /\ loop'.seen = pageNow
      /\ loop'.by = loop.by /\ loop'.want = loop.want /\ loop'.refused = loop.refused
      /\ loop'.rejected = loop.rejected /\ loop'.key = loop.key /\ loop'.base = loop.base
  BY <1>1 DEF ActFallsBack, LocalsType, Steps, Working
<1>8. Common(loop')
  BY <1>1, <1>2, <1>7 DEF Common
<1>9. Met(trace', loop'.base, loop'.key)
  BY <1>4, <1>7 DEF Met
<1>10. LocalsOK(drive', loop', trace')
  BY <1>2, <1>4, <1>7, <1>8, <1>9, NotedFits
<1>11. QED
  BY <1>6, <1>10

LEMMA ReachesKeeps ==
    ASSUME DriveConstants, DriveInv, Reaches
    PROVE  MemoryOK(drive', trace') /\ LocalsOK(drive', loop', trace')
<1>1. /\ loop.pc = "act" /\ loop \in LocalsType /\ pageNow' \in site.pages /\ trace \in TraceType
      /\ drive \in MemoryType /\ MemoryOK(drive, trace) /\ site \in Sites
  BY DriveFacts DEF Reaches
<1>2. /\ Common(loop) /\ loop.acts = loop.cActs /\ loop.key \in site.keys /\ loop.want = "act"
      /\ ~ (loop.by = "auto" /\ loop.refused)
      /\ (trace.owed => loop.rejected /\ loop.by = "wallet") /\ loop.seen \in site.pages
  BY <1>1, DoingFacts
<1>3. <<loop.base, loop.key>> \in SomePage \X Named
  BY <1>1 DEF LocalsType
<1>4. /\ trace' \in TraceType /\ trace'.dialogs = trace.dialogs /\ trace'.owed = trace.owed
      /\ trace'.fellback = trace.fellback
      /\ trace'.reached = trace.reached \cup {<<loop.base, loop.key>>}
  BY <1>1, <1>3 DEF Reaches, TraceType
<1>5. /\ drive' \in MemoryType /\ drive'.jev = drive.jev
      /\ drive'.dead = drive.dead /\ drive'.deadOn = drive.deadOn
 <2> DEFINE v == drive.visited \cup ({loop.key} \cap site.sections)
            u == drive.submitted \/ loop.key \in site.submits
 <2>1. v \in SUBSET site.keys /\ u \in BOOLEAN
   BY <1>1, SiteFacts DEF MemoryType
 <2>2. drive' = [drive EXCEPT !.visited = v, !.occluded = 0, !.submitted = u]
   BY <1>1 DEF Reaches, MemoryType
 <2> HIDE DEF v, u
 <2>3. QED
   BY <1>1, <2>1, <2>2 DEF MemoryType
<1>6. MemoryOK(drive', trace')
 <2>1. MemoryOK(drive', trace)
   BY <1>1, <1>5, MemoryKept
 <2>2. QED
   BY <1>4, <2>1, TraceGrows
<1> DEFINE c == [loop EXCEPT !.acts = @ + 1]
           a == GoesTo([c EXCEPT !.seen = pageNow'], "after")
           o == GoesTo(c, "observe")
<1>7. loop' \in {Ended(c, "needs_value"), a, o}
  BY DEF Reaches
<1>8. loop.acts + 1 \in Nat /\ pageNow' \in SomePage
  BY <1>1 DEF LocalsType, SomePage
<1>9. /\ c \in LocalsType
      /\ a \in LocalsType /\ a.pc = "after" /\ a.acts = loop.acts + 1 /\ a.cActs = loop.cActs
      /\ a.steps = loop.steps /\ a.seen = pageNow' /\ a.by = loop.by /\ a.want = loop.want
      /\ a.key = loop.key /\ a.rejected = loop.rejected /\ a.refused = loop.refused
  BY <1>1, <1>8 DEF GoesTo, LocalsType, Steps, Working
<1>10. /\ o \in LocalsType /\ o.pc = "observe" /\ o.acts = loop.acts + 1 /\ o.cActs = loop.cActs
       /\ o.steps = loop.steps /\ o.seen = loop.seen /\ o.by = loop.by /\ o.want = loop.want
       /\ o.key = loop.key /\ o.rejected = loop.rejected /\ o.refused = loop.refused
       /\ o.base = loop.base
  BY <1>1, <1>8 DEF GoesTo, LocalsType, Steps, Working, Acting
<1> HIDE DEF a, c, o
<1>11. Common(a) /\ Common(o)
  BY <1>1, <1>2, <1>9, <1>10 DEF Common
<1>12. Met(trace', o.base, o.key)
  BY <1>4, <1>10 DEF Met
<1>13. LocalsOK(drive', a, trace')
  BY <1>2, <1>4, <1>9, <1>11, AfterFits
<1>14. LocalsOK(drive', o, trace')
  BY <1>2, <1>4, <1>10, <1>11, <1>12, NotedFits
<1>15. LocalsOK(drive', Ended(c, "needs_value"), trace')
  BY <1>9, EndedFits DEF Endings, Wants
<1>16. QED
  BY <1>6, <1>7, <1>13, <1>14, <1>15

LEMMA ObserveActKeeps ==
    ASSUME DriveConstants, DriveInv, ObserveAct
    PROVE  MemoryOK(drive', trace') /\ LocalsOK(drive', loop', trace')
<1>1. /\ loop.pc = "observe" /\ trace' = trace /\ loop \in LocalsType /\ pageNow \in site.pages
      /\ drive \in MemoryType /\ MemoryOK(drive, trace) /\ pageNow \in SomePage
  BY DriveFacts DEF ObserveAct, Env
<1>2. /\ Common(loop) /\ (loop.acts = loop.cActs \/ loop.acts = loop.cActs + 1)
      /\ ~ (loop.by = "auto" /\ loop.refused) /\ loop.want = "act"
      /\ (trace.owed => loop.rejected /\ loop.by = "wallet")
      /\ loop.key \in site.keys /\ Met(trace, loop.base, loop.key)
  BY <1>1, NotedFacts
<1> DEFINE c == [loop EXCEPT !.seen = pageNow]
           b == GoesTo(c, "progress")
<1>3. /\ c \in LocalsType
      /\ b \in LocalsType /\ b.pc = "progress" /\ b.acts = loop.acts /\ b.cActs = loop.cActs
      /\ b.steps = loop.steps /\ b.seen = pageNow /\ b.by = loop.by /\ b.want = loop.want
      /\ b.key = loop.key /\ b.rejected = loop.rejected /\ b.refused = loop.refused
      /\ b.base = loop.base
  BY <1>1 DEF GoesTo, LocalsType, Steps, Working
<1>4. /\ loop' \in {Ended(c, "evaluate_timeout"), Ended(c, "stuck"), Ended(c, "no_progress"), b}
      /\ drive' = drive \/ drive' = [drive EXCEPT !.silent = @ \cup {loop.key}]
  BY DEF ObserveAct
<1> HIDE DEF b, c
<1>5. /\ drive' \in MemoryType /\ drive'.jev = drive.jev
      /\ drive'.dead = drive.dead /\ drive'.deadOn = drive.deadOn
 <2>1. CASE drive' = [drive EXCEPT !.silent = @ \cup {loop.key}]
   BY <1>1, <1>2, <2>1 DEF MemoryType
 <2>2. QED
   BY <1>1, <1>4, <2>1
<1>6. Common(b)
  BY <1>1, <1>2, <1>3 DEF Common
<1>7. LocalsOK(drive', b, trace')
  BY <1>1, <1>2, <1>3, <1>6, NotedFits
<1>8. \A t \in {"evaluate_timeout", "stuck", "no_progress"} : LocalsOK(drive', Ended(c, t), trace')
  BY <1>3, EndedFits DEF Endings, Wants
<1>9. QED
  BY <1>1, <1>4, <1>5, <1>7, <1>8, MemoryKept

LEMMA CardKeeps ==
    ASSUME DriveConstants, DriveInv, Card
    PROVE  MemoryOK(drive', trace') /\ LocalsOK(drive', loop', trace')
<1>1. /\ loop.pc = "card" /\ trace' = trace /\ loop \in LocalsType
      /\ drive \in MemoryType /\ MemoryOK(drive, trace)
  BY DriveFacts DEF Card, Env
<1>2. /\ Common(loop) /\ loop.acts = loop.cActs /\ loop.key \in site.keys /\ loop.want = "card"
      /\ ~ (loop.by = "auto" /\ loop.refused)
      /\ (trace.owed => loop.rejected /\ loop.by = "wallet")
  BY <1>1, DoingFacts
<1> DEFINE c == [loop EXCEPT !.acts = @ + 1]
           b == [c EXCEPT !.pc = "progress", !.seen = pageNow']
<1>3. loop.acts + 1 \in Nat
  BY <1>1 DEF LocalsType
<1>4. c \in LocalsType
  BY <1>1, <1>3 DEF LocalsType
<1>5. \/ loop' \in {Ended(c, "pending_approval"), Ended(c, "approval_expired"), Ended(c, "card_incomplete")}
      \/ loop' = b /\ pageNow' \in site.pages
  BY DEF Card
<1>6. \/ drive' = drive \/ \E h \in BOOLEAN : drive' = [drive EXCEPT !.released = TRUE, !.half = h]
  BY DEF Card
<1>7. MemoryOK(drive', trace')
 <2>1. ASSUME NEW h \in BOOLEAN, drive' = [drive EXCEPT !.released = TRUE, !.half = h]
       PROVE  MemoryOK(drive', trace')
  <3>1. /\ drive' \in MemoryType /\ drive'.jev = drive.jev
        /\ drive'.dead = drive.dead /\ drive'.deadOn = drive.deadOn
    BY <1>1, <2>1 DEF MemoryType
  <3>2. QED
    BY <1>1, <3>1, MemoryKept
 <2>2. QED
   BY <1>1, <1>6, <2>1
<1>8. ASSUME pageNow' \in site.pages PROVE LocalsOK(drive', b, trace')
 <2>1. pageNow' \in SomePage
   BY <1>8 DEF SomePage
 <2>2. /\ b \in LocalsType /\ b.pc = "progress" /\ b.acts = loop.acts + 1 /\ b.cActs = loop.cActs
       /\ b.steps = loop.steps /\ b.seen = pageNow' /\ b.by = loop.by /\ b.want = loop.want
       /\ b.key = loop.key /\ b.rejected = loop.rejected /\ b.refused = loop.refused
   BY <1>1, <1>3, <2>1 DEF LocalsType, Steps, Working
 <2> HIDE DEF b, c
 <2>3. Common(b)
   BY <1>2, <1>8, <2>2 DEF Common
 <2>4. QED
   BY <1>1, <1>2, <2>2, <2>3, NotedFits
<1> HIDE DEF b, c
<1>9. \A t \in {"pending_approval", "approval_expired", "card_incomplete"} :
         LocalsOK(drive', Ended(c, t), trace')
  BY <1>4, EndedFits DEF Endings
<1>10. QED
  BY <1>5, <1>7, <1>8, <1>9

LEMMA InboxKeeps ==
    ASSUME DriveConstants, DriveInv, Inbox
    PROVE  MemoryOK(drive', trace') /\ LocalsOK(drive', loop', trace')
<1>1. /\ loop.pc = "inbox" /\ trace' = trace /\ drive' = drive /\ loop \in LocalsType
      /\ MemoryOK(drive, trace) /\ pageNow \in site.pages
  BY DriveFacts DEF Inbox
<1>2. /\ Common(loop) /\ loop.acts = loop.cActs /\ loop.want = "inbox"
      /\ ~ (loop.by = "auto" /\ loop.refused)
      /\ (trace.owed => loop.rejected /\ loop.by = "wallet")
  BY <1>1, DoingFacts
<1>3. \A t \in {"needs_value", "stuck"} : LocalsOK(drive', Ended(loop, t), trace')
  BY <1>1, EndedFits DEF Endings, Wants
<1>4. ASSUME NEW n \in 0 .. 1, pageNow' \in site.pages,
             loop' = [loop EXCEPT !.acts = @ + n, !.pc = "progress", !.seen = pageNow', !.key = Nothing]
      PROVE  LocalsOK(drive', loop', trace')
 <2>1. loop.acts + n \in Nat /\ pageNow' \in SomePage /\ Nothing \in Named
   BY <1>1, <1>4 DEF LocalsType, SomePage, Named
 <2>2. /\ loop' \in LocalsType /\ loop'.pc = "progress" /\ loop'.acts = loop.acts + n
       /\ loop'.cActs = loop.cActs /\ loop'.steps = loop.steps /\ loop'.seen = pageNow'
       /\ loop'.by = loop.by /\ loop'.want = loop.want
       /\ loop'.rejected = loop.rejected /\ loop'.refused = loop.refused
   BY <1>1, <1>4, <2>1 DEF LocalsType, Steps, Working
 <2>3. Common(loop')
   BY <1>2, <1>4, <2>2 DEF Common
 <2>4. loop'.acts = loop'.cActs \/ loop'.acts = loop'.cActs + 1
   BY <1>1, <1>2, <2>2 DEF LocalsType
 <2>5. QED
   BY <1>1, <1>2, <2>2, <2>3, <2>4, NotedFits
<1>5. \/ loop' \in {Ended(loop, "needs_value"), Ended(loop, "stuck")}
      \/ \E n \in 0 .. 1 : /\ pageNow' \in site.pages
                           /\ loop' = [loop EXCEPT !.acts = @ + n, !.pc = "progress",
                                                   !.seen = pageNow', !.key = Nothing]
  BY <1>1 DEF Inbox
<1>6. QED
  BY <1>1, <1>3, <1>4, <1>5

LEMMA ContinueKeeps ==
    ASSUME DriveConstants, DriveInv, Continue
    PROVE  MemoryOK(drive', trace') /\ LocalsOK(drive', loop', trace')
<1>1. /\ loop.pc = "after" /\ trace' = trace /\ drive' = drive /\ loop \in LocalsType
      /\ MemoryOK(drive, trace) /\ MaxSteps \in Nat /\ loop.pc \in Working
  BY DriveFacts, BoundFacts DEF Continue, Env, Working
<1>2. /\ Common(loop) /\ (loop.acts = loop.cActs \/ loop.acts = loop.cActs + 1)
      /\ (loop.by = "auto" /\ loop.refused => loop.acts = loop.cActs)
      /\ trace.owed => loop.rejected
  BY <1>1, WorkFacts
<1>3. /\ loop.cActs <= loop.steps /\ loop.steps <= MaxSteps /\ loop.seen \in site.pages
      /\ (loop.by \in {"auto", "recover"} => loop.steps < MaxSteps)
      /\ loop.cActs \in Nat /\ loop.acts \in Nat /\ loop.steps \in Nat
  BY <1>1, <1>2 DEF Common, LocalsType
<1> DEFINE a == [loop EXCEPT !.terminal = FALSE]
           b == [Spend(loop) EXCEPT !.terminal = FALSE]
<1>4. \/ loop.by = "auto" /\ loop.refused /\ loop' = GoesTo(a, "ask")
      \/ loop.by = "recover" /\ loop' = GoesTo(b, "ask")
      \/ loop' = Ended(loop, "stuck")
      \/ loop' = GoesTo(Spend(loop), "top")
  BY DEF Continue, After
<1>5. CASE loop.by = "auto" /\ loop.refused /\ loop' = GoesTo(a, "ask")
 <2>1. /\ loop' \in LocalsType /\ loop'.pc = "ask" /\ loop'.acts = loop.acts
       /\ loop'.cActs = loop.cActs /\ loop'.steps = loop.steps /\ loop'.seen = loop.seen
       /\ loop'.rejected = loop.rejected
   BY <1>1, <1>5 DEF GoesTo, LocalsType, Steps
 <2>2. LocalsOK(drive', loop', trace')
   BY <1>1, <1>2, <1>3, <1>5, <2>1, PausedFits
 <2>3. QED
   BY <1>1, <2>2
<1> DEFINE e == Spend(loop)
<1>6. /\ e \in LocalsType /\ e.acts = e.cActs /\ e.cActs <= e.steps
      /\ e.steps \in {loop.steps, loop.steps + 1} /\ e.seen = loop.seen /\ e.rejected = loop.rejected
  BY <1>1, <1>2, <1>3, SpendIs
<1> HIDE DEF a, e
<1>7. CASE loop.by = "recover" /\ loop' = GoesTo(b, "ask")
 <2>1. loop' = GoesTo([e EXCEPT !.terminal = FALSE], "ask")
   BY <1>7 DEF e
 <2>2. /\ loop' \in LocalsType /\ loop'.pc = "ask" /\ loop'.acts = e.acts
       /\ loop'.cActs = e.cActs /\ loop'.steps = e.steps /\ loop'.seen = e.seen
       /\ loop'.rejected = e.rejected
   BY <1>6, <2>1 DEF GoesTo, LocalsType, Steps
 <2>3. loop'.steps <= MaxSteps
   BY <1>1, <1>3, <1>6, <1>7, <2>2
 <2>4. LocalsOK(drive', loop', trace')
   BY <1>1, <1>2, <1>3, <1>6, <2>2, <2>3, PausedFits
 <2>5. QED
   BY <1>1, <2>4
<1>8. CASE loop' = GoesTo(Spend(loop), "top")
 <2>1. loop' = GoesTo(e, "top")
   BY <1>8 DEF e
 <2>2. /\ loop' \in LocalsType /\ loop'.pc = "top" /\ loop'.acts = e.acts
       /\ loop'.cActs = e.cActs /\ loop'.steps = e.steps /\ loop'.seen = e.seen
       /\ loop'.rejected = e.rejected
   BY <1>6, <2>1 DEF GoesTo, LocalsType, Steps
 <2>3. LocalsOK(drive', loop', trace')
   BY <1>1, <1>2, <1>3, <1>6, <2>2, PausedFits
 <2>4. QED
   BY <1>1, <2>3
<1>9. CASE loop' = Ended(loop, "stuck")
  BY <1>1, <1>9, EndedFits DEF Endings, Wants
<1>10. QED
  BY <1>4, <1>5, <1>7, <1>8, <1>9

LEMMA BeginDriveKeeps ==
    ASSUME DriveConstants, DriveInv, NEW sameGoal \in BOOLEAN, NEW answered \in BOOLEAN,
           BeginDrive(sameGoal, answered)
    PROVE  MemoryOK(drive', trace') /\ LocalsOK(drive', loop', trace')
<1>1. /\ drive \in MemoryType /\ MemoryOK(drive, trace) /\ trace \in TraceType
      /\ loop \in LocalsType /\ drive.jev \in Nat /\ Seconds \in Nat /\ MaxSteps \in Nat
  BY DriveFacts, BoundFacts
<1>2. /\ trace' \in TraceType /\ trace'.dialogs = trace.dialogs /\ trace'.owed = FALSE
      /\ trace'.reached = trace.reached /\ trace'.fellback = trace.fellback
  BY <1>1 DEF BeginDrive, TraceType
<1> DEFINE d == IF sameGoal THEN drive ELSE Forget(drive)
<1>3. d \in MemoryType /\ MemoryOK(d, trace)
 <2>1. /\ /\ Forget(drive) \in MemoryType /\ Forget(drive).jev = drive.jev
       /\ Forget(drive).dead = {}
  <3>1. EmptyDrive \in MemoryType /\ EmptyDrive.dead = {}
    BY DEF EmptyDrive, MemoryType, SomePage, Named
  <3>2. QED
    BY <1>1, <3>1 DEF Forget, MemoryType
 <2>2. MemoryOK(Forget(drive), trace)
   BY <1>1, <2>1 DEF MemoryOK, Tried
 <2>3. QED
   BY <1>1, <2>1, <2>2
<1>4. drive' = [d EXCEPT !.asked = drive.asked] \/ drive' = d
  BY DEF BeginDrive
<1> HIDE DEF d
<1>5. /\ drive' \in MemoryType /\ drive'.jev = d.jev
      /\ drive'.dead = d.dead /\ drive'.deadOn = d.deadOn
 <2>1. CASE drive' = [d EXCEPT !.asked = drive.asked]
   BY <1>1, <1>3, <2>1 DEF MemoryType
 <2>2. QED
   BY <1>3, <1>4, <2>1
<1>6. MemoryOK(drive', trace')
  BY <1>2, <1>3, <1>5, MemoryKept, TraceGrows
<1>7. LocalsOK(drive', loop', trace')
 <2>1. Local \in LocalsType
   BY <1>1 DEF Local, LocalsType, Steps, SomePage, Named, Makers, Wants, Endings, Nothing
 <2>2. /\ Local.steps = 0 /\ Local.acts = 0 /\ Local.cActs = 0 /\ Local.want = Nothing
   BY DEF Local
 <2>3. loop.calls + 1 \in Nat /\ Seconds \in 0 .. Seconds
   BY <1>1 DEF LocalsType
 <2>4. /\ loop' \in LocalsType /\ loop'.pc = "first" /\ loop'.steps = 0 /\ loop'.acts = 0
       /\ loop'.cActs = 0 /\ loop'.want = Nothing
   BY <1>1, <2>1, <2>2, <2>3 DEF BeginDrive, LocalsType, Steps
 <2>5. Paid(loop') /\ Budgeted(loop')
   BY <2>4 DEF Paid, Budgeted, Working, Acting
 <2>6. Placed(loop', trace') /\ Chosen(loop', trace') /\ Owing(loop', trace')
   BY <1>2, <2>4 DEF Placed, Chosen, Owing, Working, Acting
 <2>7. QED
   BY <2>4, <2>5, <2>6 DEF LocalsOK
<1>8. QED
  BY <1>6, <1>7

LEMMA DriveTickKeeps ==
    ASSUME DriveConstants, DriveInv, DriveTick
    PROVE  MemoryOK(drive', trace') /\ LocalsOK(drive', loop', trace')
<1>1. /\ drive' = drive /\ trace' = trace /\ loop \in LocalsType /\ MemoryOK(drive, trace)
      /\ LocalsOK(drive, loop, trace) /\ Seconds \in Nat
  BY DriveFacts, BoundFacts DEF DriveTick, Env
<1>2. loop.left - 1 \in 0 .. Seconds
  BY <1>1 DEF DriveTick, LocalsType
<1>3. /\ loop' \in LocalsType /\ loop'.pc = loop.pc /\ loop'.acts = loop.acts
      /\ loop'.cActs = loop.cActs /\ loop'.steps = loop.steps /\ loop'.seen = loop.seen
      /\ loop'.by = loop.by /\ loop'.want = loop.want /\ loop'.refused = loop.refused
      /\ loop'.rejected = loop.rejected /\ loop'.key = loop.key /\ loop'.from = loop.from
      /\ loop'.base = loop.base
  BY <1>1, <1>2 DEF DriveTick, LocalsType
<1>4. Paid(loop') /\ Budgeted(loop')
  BY <1>1, <1>3 DEF LocalsOK, Paid, Budgeted
<1>5. Placed(loop', trace) /\ Chosen(loop', trace) /\ Owing(loop', trace)
  BY <1>1, <1>3 DEF LocalsOK, Placed, Chosen, Owing
<1>6. QED
  BY <1>1, <1>3, <1>4, <1>5 DEF LocalsOK

LEMMA ProgressKeeps ==
    ASSUME DriveConstants, DriveInv, Progress
    PROVE  MemoryOK(drive', trace') /\ LocalsOK(drive', loop', trace')
<1>1. /\ loop.pc = "progress" /\ trace' = trace /\ loop \in LocalsType /\ pageNow \in site.pages
      /\ drive \in MemoryType /\ MemoryOK(drive, trace)
  BY DriveFacts DEF Progress, Env
<1>2. /\ Common(loop) /\ (loop.acts = loop.cActs \/ loop.acts = loop.cActs + 1)
      /\ ~ (loop.by = "auto" /\ loop.refused) /\ loop.seen \in site.pages
      /\ (trace.owed => loop.rejected /\ loop.by = "wallet")
      /\ loop.want = "act" => loop.key \in site.keys /\ Met(trace, loop.base, loop.key)
  BY <1>1, NotedFacts
<1> DEFINE p == IF loop.seen = loop.base THEN pageNow ELSE loop.seen
           c == [loop EXCEPT !.seen = p]
           b == GoesTo(c, "after")
           s == IF p = loop.base THEN drive.stale + 1 ELSE 0
           t == IF drive.dests # <<>> /\ Last(drive.dests) = p THEN drive.dests
                ELSE Append(drive.dests, p)
           d == [drive EXCEPT !.stale = s, !.last = p, !.dests = t]
           e == [d EXCEPT !.keys = Append(@, p)]
<1>3. p \in site.pages /\ p \in SomePage
  BY <1>1, <1>2 DEF SomePage
<1>4. s \in Nat /\ t \in Seq(site.pages) /\ Append(drive.keys, p) \in Seq(site.pages)
 <2>1. drive.stale \in Nat /\ drive.dests \in Seq(site.pages) /\ drive.keys \in Seq(site.pages)
   BY <1>1 DEF MemoryType
 <2> HIDE DEF p
 <2>2. Append(drive.dests, p) \in Seq(site.pages) /\ Append(drive.keys, p) \in Seq(site.pages)
  <3>1. ASSUME NEW S, NEW q \in Seq(S), NEW x \in S PROVE Append(q, x) \in Seq(S)
    OBVIOUS
  <3>2. QED
    BY <1>3, <2>1, <3>1
 <2>3. QED
   BY <2>1, <2>2
<1>5. /\ loop' \in {Ended(c, "evaluate_timeout"), Ended(c, "no_progress"), b}
      /\ \/ drive' = drive \/ drive' = d \/ drive' = e \/ drive' = [e EXCEPT !.stale = 0]
         \/ /\ loop.want = "act" /\ p = loop.base /\ drive' = MarkDead(e, loop.key, p)
 <2>1. [drive EXCEPT !.stale = IF p = loop.base THEN @ + 1 ELSE 0, !.last = p,
                     !.dests = IF @ # <<>> /\ Last(@) = p THEN @ ELSE Append(@, p)] = d
   BY <1>1 DEF MemoryType
 <2>2. QED
   BY <2>1 DEF Progress, Baseline
<1> HIDE DEF p, s, t
<1>6. /\ c \in LocalsType
      /\ b \in LocalsType /\ b.pc = "after" /\ b.acts = loop.acts /\ b.cActs = loop.cActs
      /\ b.steps = loop.steps /\ b.seen = p /\ b.by = loop.by /\ b.want = loop.want
      /\ b.key = loop.key /\ b.rejected = loop.rejected /\ b.refused = loop.refused
  BY <1>1, <1>3 DEF GoesTo, LocalsType, Steps, Working
<1> HIDE DEF b, c
<1>7. /\ d \in MemoryType /\ d.jev = drive.jev
      /\ d.dead = drive.dead /\ d.deadOn = drive.deadOn
      /\ d.keys = drive.keys
  BY <1>1, <1>3, <1>4 DEF MemoryType
<1> HIDE DEF d
<1>8. e \in MemoryType /\ e.jev = d.jev /\ e.dead = d.dead /\ e.deadOn = d.deadOn
  BY <1>4, <1>7 DEF MemoryType
<1> HIDE DEF e
<1>9. MemoryOK(drive', trace')
 <2>1. MemoryOK(d, trace) /\ MemoryOK(e, trace)
   BY <1>1, <1>7, <1>8, MemoryKept
 <2>2. CASE drive' = [e EXCEPT !.stale = 0]
  <3>1. /\ drive' \in MemoryType /\ drive'.jev = e.jev
        /\ drive'.dead = e.dead /\ drive'.deadOn = e.deadOn
    BY <1>8, <2>2 DEF MemoryType
  <3>2. QED
    BY <1>1, <2>1, <3>1, MemoryKept
 <2>3. CASE loop.want = "act" /\ p = loop.base /\ drive' = MarkDead(e, loop.key, p)
  <3>1. loop.key \in site.keys /\ Met(trace, p, loop.key)
    BY <1>2, <2>3
  <3>2. MemoryOK(MarkDead(e, loop.key, p), trace)
    BY <1>3, <2>1, <3>1, MarkDeadFits
  <3>3. QED
    BY <1>1, <2>3, <3>2
 <2>4. QED
   BY <1>1, <1>5, <2>1, <2>2, <2>3
<1>10. Common(b)
  BY <1>2, <1>3, <1>6 DEF Common
<1>11. LocalsOK(drive', b, trace')
  BY <1>1, <1>2, <1>6, <1>10, AfterFits
<1>12. LocalsOK(drive', Ended(c, "evaluate_timeout"), trace')
  BY <1>6, EndedFits DEF Endings
<1>13. LocalsOK(drive', Ended(c, "no_progress"), trace')
  BY <1>6, EndedFits DEF Endings
<1>14. QED
  BY <1>5, <1>9, <1>11, <1>12, <1>13

(* The site stays, and the page is one of its pages. *)
LEMMA LoopKeepsWorld ==
    ASSUME DriveConstants, DriveInv, Loop
    PROVE  site' = site /\ drift' = drift /\ pageNow' \in site.pages
<1>1. pageNow \in site.pages
  BY DriveFacts
<1>2. CASE First \/ ResumeAnswer \/ OutOfBudget \/ Dialog \/ NotReady \/ Wallet \/ FillField
  BY <1>1, <1>2 DEF First, ResumeAnswer, OutOfBudget, Dialog, NotReady, Wallet, FillField, Env
<1>3. CASE Missing \/ Checkbox \/ AutoWait \/ BusyEnds \/ Solve \/ AutoInbox \/ AutoCard
  BY <1>1, <1>3 DEF Missing, Checkbox, AutoWait, BusyEnds, Solve, AutoInbox, AutoCard, Env
<1>4. CASE RecoverChoice \/ NothingAutomatic \/ Ask \/ (\E n \in 1 .. 2 : Decides(n)) \/ JevFails
  BY <1>1, <1>4 DEF RecoverChoice, NothingAutomatic, Ask, Decides, JevFails, Env
<1>5. CASE Question \/ NoneOfThese \/ Complete \/ Wait \/ Replan \/ GoBack \/ Gate \/ PreAct
  BY <1>1, <1>5 DEF Question, NoneOfThese, Complete, Wait, Replan, GoBack, Gate, PreAct, Env
<1>6. CASE ActIsRefused \/ ActFallsBack \/ Reaches \/ ObserveAct \/ Progress \/ Continue
  BY <1>1, <1>6 DEF ActIsRefused, ActFallsBack, Reaches, ObserveAct, Progress, Continue, Env
<1>7. CASE Card \/ Inbox
  BY <1>1, <1>7 DEF Card, Inbox
<1>8. QED
  BY <1>2, <1>3, <1>4, <1>5, <1>6, <1>7 DEF Loop

LEMMA LoopKeeps ==
    ASSUME DriveConstants, DriveInv, Loop
    PROVE  MemoryOK(drive', trace') /\ LocalsOK(drive', loop', trace')
<1>1. CASE First \/ ResumeAnswer \/ OutOfBudget \/ Dialog \/ NotReady \/ Wallet \/ FillField
  BY <1>1, FirstKeeps, ResumeAnswerKeeps, OutOfBudgetKeeps, DialogKeeps, NotReadyKeeps,
     WalletKeeps, FillFieldKeeps
<1>2. CASE Missing \/ Checkbox \/ AutoWait \/ BusyEnds \/ Solve \/ AutoInbox \/ AutoCard
  BY <1>2, MissingKeeps, CheckboxKeeps, AutoWaitKeeps, BusyEndsKeeps, SolveKeeps,
     AutoInboxKeeps, AutoCardKeeps
<1>3. CASE RecoverChoice \/ NothingAutomatic \/ Ask \/ (\E n \in 1 .. 2 : Decides(n)) \/ JevFails
  BY <1>3, RecoverChoiceKeeps, NothingAutomaticKeeps, AskKeeps, DecidesKeeps, JevFailsKeeps
<1>4. CASE Question \/ NoneOfThese \/ Complete \/ Wait \/ Replan \/ GoBack \/ Gate \/ PreAct
  BY <1>4, QuestionKeeps, NoneOfTheseKeeps, CompleteKeeps, WaitKeeps, ReplanKeeps,
     GoBackKeeps,
     GateKeeps, PreActKeeps
<1>5. CASE ActIsRefused \/ ActFallsBack \/ Reaches \/ ObserveAct \/ Progress \/ Continue
  BY <1>5, ActIsRefusedKeeps, ActFallsBackKeeps, ReachesKeeps, ObserveActKeeps, ProgressKeeps,
     ContinueKeeps
<1>6. CASE Card \/ Inbox
  BY <1>6, CardKeeps, InboxKeeps
<1>7. QED
  BY <1>1, <1>2, <1>3, <1>4, <1>5, <1>6 DEF Loop

LEMMA DriveStep ==
    ASSUME DriveConstants, DriveInv, [DriveNext]_driveVars
    PROVE  /\ site' = site /\ pageNow' \in site.pages /\ drift' \in 0 .. MaxDrift
           /\ MemoryOK(drive', trace') /\ LocalsOK(drive', loop', trace')
<1>1. /\ MemoryOK(drive, trace) /\ LocalsOK(drive, loop, trace) /\ pageNow \in site.pages
      /\ drift \in 0 .. MaxDrift /\ MaxDrift \in Nat
  BY DriveFacts DEF DriveInv, World, DriveConstants
<1>2. CASE Loop
  BY <1>1, <1>2, LoopKeeps, LoopKeepsWorld
<1>3. CASE \E sameGoal, answered \in BOOLEAN : BeginDrive(sameGoal, answered)
 <2>1. PICK sameGoal \in BOOLEAN, answered \in BOOLEAN : BeginDrive(sameGoal, answered)
   BY <1>3
 <2>2. QED
   BY <1>1, <2>1, BeginDriveKeeps DEF BeginDrive, Env
<1>4. CASE Drifts
  BY <1>1, <1>4 DEF Drifts
<1>5. CASE DriveTick
  BY <1>1, <1>5, DriveTickKeeps DEF DriveTick, Env
<1>6. CASE UNCHANGED driveVars
  BY <1>1, <1>6 DEF driveVars
<1>7. QED
  BY <1>2, <1>3, <1>4, <1>5, <1>6 DEF DriveNext

LEMMA DriveInvKept ==
    ASSUME DriveConstants, DriveInv, [DriveNext]_driveVars
    PROVE  DriveInv'
<1>1. /\ site' = site /\ pageNow' \in site.pages /\ drift' \in 0 .. MaxDrift
      /\ MemoryOK(drive', trace') /\ LocalsOK(drive', loop', trace') /\ site \in Sites
  BY DriveStep, DriveFacts
<1>2. SomePage' = SomePage /\ Named' = Named
  BY <1>1 DEF SomePage, Named
<1>3. MemoryType' = MemoryType /\ LocalsType' = LocalsType /\ TraceType' = TraceType
  BY <1>1, <1>2 DEF MemoryType, LocalsType, TraceType
<1>4. MemoryOK(drive, trace)'
  BY <1>1, <1>3 DEF MemoryOK, Tried, Met
<1>5. LocalsOK(drive, loop, trace)'
 <2>1. /\ loop' \in LocalsType /\ Paid(loop') /\ Budgeted(loop') /\ Placed(loop', trace')
       /\ Chosen(loop', trace') /\ Owing(loop', trace') /\ (loop'.pc = "asked" => drive'.jev < MaxJev)
   BY <1>1 DEF LocalsOK
 <2>2. Paid(loop)' /\ Budgeted(loop)'
   BY <2>1 DEF Paid, Budgeted
 <2>3. Placed(loop, trace)' /\ Owing(loop, trace)'
   BY <1>1, <2>1 DEF Placed, Owing
 <2>4. Chosen(loop, trace)'
   BY <1>1, <2>1 DEF Chosen, Met
 <2>5. QED
   BY <1>3, <2>1, <2>2, <2>3, <2>4 DEF LocalsOK
<1>6. QED
  BY <1>1, <1>4, <1>5 DEF DriveInv, World

LEMMA DriveInitHolds ==
    ASSUME DriveConstants, DriveInit
    PROVE  DriveInv
<1>1. EmptyDrive \in MemoryType /\ EmptyDrive.dead = {} /\ EmptyDrive.jev = 0
  BY DEF EmptyDrive, MemoryType, SomePage, Named
<1>2. Local \in LocalsType
  BY DEF Local, LocalsType, Steps, SomePage, Named, Makers, Wants, Endings, Nothing,
     DriveConstants
<1>3. Local.pc = "idle" /\ Local.cActs = 0 /\ Local.acts = 0 /\ Local.steps = 0
  BY DEF Local
<1>4. LocalsOK(drive, loop, trace)
  BY <1>2, <1>3 DEF DriveInit, LocalsOK, Paid, Budgeted, Placed, Chosen, Owing, Working,
     Acting
<1>5. trace \in TraceType /\ trace.dialogs = 0
  BY DEF DriveInit, TraceType, SomePage
<1>6. MemoryOK(drive, trace)
  BY <1>1, <1>5, BoundFacts DEF DriveInit, MemoryOK, Tried
<1>7. QED
  BY <1>4, <1>6 DEF DriveInit, DriveInv, World, DriveConstants

LEMMA DriveInvIsSafe ==
    ASSUME DriveConstants, DriveInv
    PROVE  DriveTypeOK /\ ActsArePaid /\ ModelCallsBounded /\ DeadWasTried
<1>1. /\ drive \in MemoryType /\ loop \in LocalsType /\ MemoryOK(drive, trace)
      /\ LocalsOK(drive, loop, trace)
  BY DriveFacts
<1>2. DriveTypeOK
 <2>1. /\ drive.bound \in site.pages \cup {Nothing} /\ drive.deadOn \in site.pages \cup {Nothing}
       /\ drive.dead \subseteq site.keys \cup {"WAIT"}
       /\ drive.spurned \subseteq site.keys \cup {"INBOX"}
       /\ drive.dests \in Seq(site.pages) /\ drive.keys \in Seq(site.pages)
       /\ drive.jev \in Nat /\ drive.stale \in Nat
   BY <1>1 DEF MemoryType, SomePage
 <2>2. /\ loop.seen \in site.pages \cup {Nothing} /\ loop.steps \in 0 .. MaxSteps + 1
       /\ loop.left \in 0 .. Seconds /\ loop.pc \in Steps
   BY <1>1 DEF LocalsType, SomePage
 <2>3. QED
   BY <2>1, <2>2 DEF DriveInv, World, DriveTypeOK, Steps, Working, Acting
<1>3. ActsArePaid
 <2>1. loop.acts \in Nat /\ loop.cActs \in Nat /\ loop.steps \in Nat
   BY <1>1 DEF LocalsType
 <2>2. loop.cActs <= loop.steps /\ (loop.acts = loop.cActs \/ loop.acts = loop.cActs + 1)
   BY <1>1 DEF LocalsOK, Paid
 <2>3. QED
   BY <2>1, <2>2 DEF ActsArePaid
<1>4. ModelCallsBounded /\ DeadWasTried
  BY <1>1 DEF MemoryOK, Tried, Met, ModelCallsBounded, DeadWasTried
<1>5. QED
  BY <1>2, <1>3, <1>4

LEMMA DriveStepIsSafe ==
    ASSUME DriveConstants, DriveInv, [DriveNext]_driveVars
    PROVE  /\ (Reaches \/ Card \/ Checkbox) /\ trace.owed => loop.by = "wallet"
           /\ (ActIsRefused \/ ActFallsBack \/ Reaches \/ Card) => loop.from = trace.checked
<1>1. CASE ActIsRefused \/ ActFallsBack \/ Reaches \/ Card
 <2>1. loop.pc \in {"act", "card"}
   BY <1>1 DEF ActIsRefused, ActFallsBack, Reaches, Card
 <2>2. (trace.owed => loop.by = "wallet") /\ loop.from = trace.checked
   BY <2>1, DoingFacts
 <2>3. QED
   BY <2>2, <2>1 DEF Checkbox, ByItself, Top
<1>2. CASE Checkbox
 <2>1. loop.pc = "top" /\ ~ loop.rejected
   BY <1>2 DEF Checkbox, ByItself, Top, Automatic
 <2>2. ~ trace.owed
   BY <2>1, RestFacts
 <2>3. QED
   BY <2>1, <2>2 DEF ActIsRefused, ActFallsBack, Reaches, Card
<1>3. QED
  BY <1>1, <1>2

(* A drive takes every step it is charged for, asks its model within bounds  *)
(* and on the page it sees, hands a rejected act to the model, and counts a  *)
(* control as dead only after it was tried on that page (driveLoop of        *)
(* operate-drive.ts), on every site and with every limit.                    *)
THEOREM DrivesAreSafe == DriveConstants /\ DriveSpec => DriveSafe
<1> SUFFICES ASSUME DriveConstants PROVE DriveSpec => DriveSafe
  OBVIOUS
<1>1. DriveInit => DriveInv
  BY DriveInitHolds
<1>2. DriveInv /\ [DriveNext]_driveVars => DriveInv'
  BY DriveInvKept
<1>3. DriveInv => DriveTypeOK /\ ActsArePaid /\ ModelCallsBounded /\ DeadWasTried
  BY DriveInvIsSafe
<1>4. DriveInv /\ [DriveNext]_driveVars =>
         /\ [(Reaches \/ Card \/ Checkbox) /\ trace.owed => loop.by = "wallet"]_driveVars
         /\ [(ActIsRefused \/ ActFallsBack \/ Reaches \/ Card) => loop.from = trace.checked]_driveVars
  BY DriveStepIsSafe
<1>5. QED
  BY <1>1, <1>2, <1>3, <1>4, PTL DEF DriveSpec, DriveSafe, RejectedReachesModel,
     DecidedOnThisPage
================================================================================
