--------------------------- MODULE BrokerElection ---------------------------
(***************************************************************************)
(* Which process owns the browser profile: the election of apps/mcp/src/   *)
(* bot/broker/daemon.ts over the SQLite lock, the socket path and Chrome,   *)
(* between the broker service, brokers started by hand, a broker of the     *)
(* release before the lock, and the installer's guarded steps.              *)
(*                                                                          *)
(* A process sits in a pid slot; the slot is used again once it died, and   *)
(* its life tells the two apart, as processBirthIdentity does.  One         *)
(* synchronous stretch of the code is one step: no pid is reused inside it. *)
(* A wait of TAKEOVER_WAIT_MS may end at any time.                          *)
(***************************************************************************)
EXTENDS Naturals, FiniteSets

CONSTANTS
    Pids,       \* pid slots
    Managed,    \* a managed-broker marker names this profile
    Scoped,     \* Chrome runs in a systemd scope (linuxBrowserUsesScope)
    Legacy,     \* a broker of the release before the lock may be running
    StartLimit, \* StartLimitBurst of the unit: all starts fall in one window
    MaxOthers,  \* bound: processes that are not the service's
    MaxFaults   \* bound: crashes, outside signals, failed lsof calls, failed closes

ElectionConstants ==
    /\ 0 \notin Pids /\ {Managed, Scoped, Legacy} \subseteq BOOLEAN
    /\ {StartLimit, MaxOthers, MaxFaults} \subseteq Nat

VARIABLES
    proc,   \* the process in each slot
    lock,   \* the life that holds the SQLite lock, 0 if none
    path,   \* the life that bound the socket path, 0 if it does not exist
    chrome, \* [by: the life that launched the last Chrome, on: it runs]
    unit,   \* the service unit, and how often it was started
    counts, \* processes other than the service's, and faults, so far
    ghost   \* the lives that were asked or forced to end, that ended well, and
            \* that launched a Chrome after their shutdown had closed theirs

vars == <<proc, lock, path, chrome, unit, counts, ghost>>

Brokers == {"service", "client", "legacy"}
Lives == 1..(StartLimit + MaxOthers + 1)

Dead == [kind |-> "none", life |-> 0, pc |-> "dead", target |-> 0, of |-> 0, listens |-> FALSE]

PCs == {"dead", "marker", "lock", "identify", "grace", "forced", "relock", "sockets",
        "socketGrace", "socketForced", "scope", "chrome", "bind", "mcp", "serve", "closing",
        "unlisten", "release", "work"}

TypeOK ==
    /\ proc \in [Pids -> [kind : Brokers \cup {"installer", "none"}, life : Lives \cup {0},
                          pc : PCs, target : Pids \cup {0}, of : Lives \cup {0},
                          listens : BOOLEAN]]
    /\ {lock, path} \subseteq Lives \cup {0}
    /\ chrome \in [by : Lives \cup {0}, on : BOOLEAN]
    /\ lock # 0 => \E p \in Pids : proc[p].life = lock
    /\ unit \in [state : {"up", "failed", "stopped"}, starts : 0..StartLimit]
    /\ counts \in [others : 0..MaxOthers, faults : 0..MaxFaults]
    /\ ghost \in [asked : SUBSET Lives, forced : SUBSET Lives, well : SUBSET Lives,
                  late : SUBSET Lives, hit : SUBSET (Brokers \cup {"installer"})]

(* Nothing runs yet, or a legacy broker serves with its Chrome.              *)
Init ==
    \E old \in (IF Legacy THEN Pids ELSE {}) \cup {0} :
        /\ proc = [p \in Pids |-> IF p = old THEN [Dead EXCEPT !.kind = "legacy", !.life = 1,
                                                               !.pc = "serve", !.listens = TRUE]
                                             ELSE Dead]
        /\ path = IF old = 0 THEN 0 ELSE 1
        /\ chrome = [by |-> path, on |-> old # 0]
        /\ lock = 0 /\ unit = [state |-> "stopped", starts |-> 0]
        /\ counts = [others |-> 0, faults |-> 0]
        /\ ghost = [asked |-> {}, forced |-> {}, well |-> {}, late |-> {}, hit |-> {}]

-----------------------------------------------------------------------------
Is(p, kinds) == proc[p].kind \in kinds
Holds(p) == lock # 0 /\ proc[p].life = lock
OnSocket(p) == proc[p].listens /\ path = proc[p].life
Starting(p) == proc[p].pc \notin {"dead", "mcp", "serve", "closing", "unlisten", "release", "work"}
Goto(p, pc) ==
    proc' = [proc EXCEPT ![p].pc = pc] /\ UNCHANGED <<lock, path, chrome, unit, ghost>>
Fault == counts.faults < MaxFaults /\ counts' = [counts EXCEPT !.faults = @ + 1]

(* Mutated forms, named Operator_Fault, precede the operator they distort;   *)
(* nothing refers to them but the mutation runs of PROJECT.json.             *)

(* What a death leaves: the kernel takes the lock, Chrome may go on, and the *)
(* unit is restarted unless the end is a clean one.                          *)
LockWithout(p) == IF Holds(p) THEN 0 ELSE lock
ChromesWithout(p) == {chrome, [chrome EXCEPT !.on = @ /\ chrome.by # proc[p].life]}
UnitWithout(p, clean) ==
    IF ~Is(p, {"service"}) THEN unit
    ELSE [unit EXCEPT !.state = IF clean THEN "stopped" ELSE "failed"]
Dies(p, clean) ==
    /\ proc' = [proc EXCEPT ![p] = Dead]
    /\ lock' = LockWithout(p) /\ chrome' \in ChromesWithout(p) /\ unit' = UnitWithout(p, clean)
    /\ UNCHANGED path
Throws(p) == Dies(p, FALSE) /\ UNCHANGED ghost

(* SIGTERM or SIGINT: the shutdown runner begins, once; before it is         *)
(* installed the signal kills the process.                                   *)
Handles(q) == proc[q].pc \in {"serve", "closing", "unlisten", "release"}
Asked(q) == CASE proc[q].pc = "serve" -> [proc[q] EXCEPT !.pc = "closing"]
              [] Handles(q) /\ proc[q].pc # "serve" -> proc[q]
              [] OTHER -> Dead

-----------------------------------------------------------------------------
Start(p, kind) ==
    LET service == kind = "service"
    IN /\ proc[p] = Dead
       /\ IF service
          THEN /\ unit.state # "up" /\ unit.starts < StartLimit
               /\ unit' = [state |-> "up", starts |-> unit.starts + 1] /\ UNCHANGED counts
          ELSE /\ counts.others < MaxOthers
               /\ counts' = [counts EXCEPT !.others = @ + 1] /\ UNCHANGED unit
       /\ proc' = [proc EXCEPT ![p] = [Dead EXCEPT
              !.kind = kind, !.life = unit.starts + counts.others + 2,
              !.pc = IF kind = "installer" THEN "lock" ELSE "marker"]]
       /\ UNCHANGED <<lock, path, chrome, ghost>>

(* brokerMayStartForMarker: on a managed profile only the service starts.    *)
Marker(p) ==
    /\ proc[p].pc = "marker"
    /\ IF Managed /\ ~Is(p, {"service"}) THEN Throws(p) ELSE Goto(p, "lock")
    /\ UNCHANGED counts

(* acquireProfileOperationGuard, and for the installer                       *)
(* acquireFreeProfileOperationGuard, which refuses while a Chrome lives.     *)
(* Only the service asks who holds a busy lock, and only once.               *)
Acquire(p) ==
    /\ proc[p].pc \in {"lock", "relock"}
    /\ CASE lock = 0 /\ ~(Is(p, {"installer"}) /\ chrome.on) ->
              /\ lock' = proc[p].life
              /\ proc' = [proc EXCEPT ![p].pc = CASE Is(p, {"installer"}) -> "work"
                                                  [] Is(p, {"service"}) -> "sockets"
                                                  [] OTHER -> "scope"]
              /\ UNCHANGED <<path, chrome, unit, ghost>>
         [] lock # 0 /\ Is(p, {"service"}) /\ proc[p].pc = "lock" -> Goto(p, "identify")
         [] OTHER -> Throws(p)
    /\ UNCHANGED counts

(* withProfileOperationGuard: the installer launches Chrome and closes it,   *)
(* then releases the lock.                                                   *)
Work(p) ==
    /\ proc[p].pc = "work"
    /\ \/ /\ ~chrome.on /\ chrome' = [by |-> proc[p].life, on |-> TRUE]
          /\ UNCHANGED <<proc, lock, unit, ghost>>
       \/ /\ chrome' = [chrome EXCEPT !.on = FALSE]
          /\ proc' = [proc EXCEPT ![p] = Dead] /\ lock' = 0
          /\ ghost' = [ghost EXCEPT !.well = @ \cup {proc[p].life}] /\ UNCHANGED unit
    /\ UNCHANGED <<path, counts>>

-----------------------------------------------------------------------------
(* lockedBrokerPid, socketBrokerPid.                                         *)
Found(p, socket) == {q \in Pids \ {p} : IF socket THEN OnSocket(q) ELSE Holds(q)}

(* brokerCommandMatches, brokerServesProfile *)
Identified(q) == Is(q, Brokers)

(* takeOverOldBroker, takeOverSocketBroker: SIGTERM to the broker that holds *)
(* the lock, or the socket.  A failed lsof looks like nobody there, which    *)
(* ends a takeover of the lock and settles one of the socket.                *)
TakeOver(p, socket) ==
    LET nobody == IF socket THEN Goto(p, "scope") ELSE Throws(p)
    IN /\ proc[p].pc = IF socket THEN "sockets" ELSE "identify"
       /\ \/ Found(p, socket) = {} /\ nobody /\ UNCHANGED counts
          \/ Fault /\ nobody
          \/ /\ \E q \in Found(p, socket) :
                   IF ~Identified(q) THEN Throws(p)
                   ELSE /\ proc' = [proc EXCEPT ![q] = Asked(q),
                              ![p] = [@ EXCEPT !.target = q, !.of = proc[q].life,
                                               !.pc = IF socket THEN "socketGrace" ELSE "grace"]]
                        /\ lock' = IF Handles(q) THEN lock ELSE LockWithout(q)
                        /\ chrome' \in IF Handles(q) THEN {chrome} ELSE ChromesWithout(q)
                        /\ ghost' = [ghost EXCEPT !.asked = @ \cup {proc[q].life},
                                                  !.hit = @ \cup {proc[q].kind}]
                        /\ UNCHANGED <<path, unit>>
             /\ UNCHANGED counts

(* processBirthIdentityState *)
Matches(p) == proc[proc[p].target].life = proc[p].of

(* waitUntil: the first wait ends when the holder is seen to have let go, or *)
(* in a SIGKILL to the very process that was asked; the second lets go or    *)
(* the start fails.                                                          *)
Released(p, socket) ==
    /\ proc[p].pc \in IF socket THEN {"socketGrace", "socketForced"} ELSE {"grace", "forced"}
    /\ IF proc[p].target \in Found(p, socket) THEN Fault ELSE UNCHANGED counts
    /\ Goto(p, IF socket THEN "scope" ELSE "relock")

ForceEnd(p, socket) ==
    LET q == proc[p].target
        next == IF socket THEN "socketForced" ELSE "forced"
    IN /\ proc[p].pc = IF socket THEN "socketGrace" ELSE "grace"
       /\ q \in Found(p, socket)
       /\ IF Matches(p)
          THEN /\ proc' = [proc EXCEPT ![p].pc = next, ![q] = Dead]
               /\ lock' = LockWithout(q) /\ chrome' \in ChromesWithout(q)
               /\ ghost' = [ghost EXCEPT !.forced = @ \cup {proc[q].life},
                                         !.hit = @ \cup {proc[q].kind}]
               /\ UNCHANGED <<path, unit>>
          ELSE Goto(p, next)
       /\ UNCHANGED counts

GivesUp(p, socket) ==
    /\ proc[p].pc = IF socket THEN "socketForced" ELSE "forced"
    /\ proc[p].target \in Found(p, socket)
    /\ Throws(p) /\ UNCHANGED counts

(* stopBrowserScope: whoever was elected empties the browser's scope.        *)
StopScope(p) ==
    /\ proc[p].pc = "scope"
    /\ \/ /\ chrome' = [chrome EXCEPT !.on = @ /\ ~Scoped]
          /\ proc' = [proc EXCEPT ![p].pc = IF Is(p, {"service"}) THEN "chrome" ELSE "bind"]
          /\ UNCHANGED <<lock, path, unit, counts, ghost>>
       \/ Scoped /\ chrome.on /\ Fault /\ Throws(p)

(* takeOverOldChrome: the service ends the Chrome that SingletonLock names,  *)
(* SIGINT first.                                                             *)
OldChrome(p) ==
    /\ proc[p].pc = "chrome"
    /\ \/ /\ chrome' = [chrome EXCEPT !.on = FALSE] /\ proc' = [proc EXCEPT ![p].pc = "bind"]
          /\ UNCHANGED <<lock, path, unit, counts, ghost>>
       \/ chrome.on /\ Fault /\ Throws(p)

(* The path of a dead predecessor goes and the listener binds; the MCP       *)
(* listener and the shutdown runner come after it.                           *)
Bind(p) ==
    /\ proc[p].pc = "bind"
    /\ path' = proc[p].life /\ proc' = [proc EXCEPT ![p].pc = "mcp", ![p].listens = TRUE]
    /\ UNCHANGED <<lock, chrome, unit, counts, ghost>>
Serve(p) == proc[p].pc = "mcp" /\ Goto(p, "serve") /\ UNCHANGED counts

(* An operation launches Chrome, unless one runs on the profile.  A start    *)
(* that passed the check for a drain and awaits the account's binding is not *)
(* pending yet: it launches during the shutdown, and after runtime.close.    *)
Launch(p) ==
    /\ proc[p].pc \in {"mcp", "serve", "closing", "unlisten", "release"} /\ ~chrome.on
    /\ chrome' = [by |-> proc[p].life, on |-> TRUE]
    /\ ghost' = IF proc[p].pc \in {"unlisten", "release"}
                THEN [ghost EXCEPT !.late = @ \cup {proc[p].life}] ELSE ghost
    /\ UNCHANGED <<proc, lock, path, unit, counts>>

-----------------------------------------------------------------------------
(* shutdown: operator.shutdown and runtime.close.  An end that is not proven, *)
(* or that finds a launch pending, keeps everything, and a later signal      *)
(* tries again.                                                              *)
ClosesChrome(p) ==
    /\ proc[p].pc = "closing"
    /\ \/ /\ chrome' = [chrome EXCEPT !.on = @ /\ chrome.by # proc[p].life]
          /\ proc' = [proc EXCEPT ![p].pc = "unlisten"]
          /\ UNCHANGED <<lock, path, unit, counts, ghost>>
       \/ Fault /\ Goto(p, "serve")

Unlisten_ReleasesFirst(p) ==
    /\ proc[p].pc = "unlisten"
    /\ lock' = LockWithout(p) /\ proc' = [proc EXCEPT ![p].pc = "release"]
    /\ UNCHANGED <<path, chrome, unit, counts, ghost>>
(* The listeners close; the wire's takes the path with it if it is its own.  *)
Unlisten(p) ==
    /\ proc[p].pc = "unlisten"
    /\ path' = IF path = proc[p].life THEN 0 ELSE path
    /\ proc' = [proc EXCEPT ![p].pc = "release", ![p].listens = FALSE]
    /\ UNCHANGED <<lock, chrome, unit, counts, ghost>>

(* profileElection.release, process.exit(0): the exit handler signals a      *)
(* Chrome that came up late, which may go on all the same.                   *)
Release(p) ==
    /\ proc[p].pc = "release"
    /\ proc' = [proc EXCEPT ![p] = Dead] /\ lock' = LockWithout(p)
    /\ unit' = UnitWithout(p, TRUE) /\ chrome' \in ChromesWithout(p)
    /\ ghost' = [ghost EXCEPT !.well = @ \cup {proc[p].life}]
    /\ UNCHANGED <<path, counts>>

-----------------------------------------------------------------------------
(* A crash or SIGKILL, which counts as clean if the manager stops the unit   *)
(* (TimeoutStopSec); a signal from outside; Chrome dying by itself.          *)
Crash(p) ==
    proc[p] # Dead /\ Fault /\ (\E stop \in BOOLEAN : Dies(p, stop)) /\ UNCHANGED ghost
Signal(p) ==
    /\ Is(p, Brokers) /\ Fault
    /\ IF Handles(p) THEN /\ proc' = [proc EXCEPT ![p] = Asked(p)]
                          /\ UNCHANGED <<lock, path, chrome, unit>>
                     ELSE Dies(p, TRUE)
    /\ UNCHANGED ghost
ChromeDies ==
    /\ chrome.on /\ Fault /\ chrome' = [chrome EXCEPT !.on = FALSE]
    /\ UNCHANGED <<proc, lock, path, unit, ghost>>

TakesOver(p, socket) ==
    TakeOver(p, socket) \/ Released(p, socket) \/ ForceEnd(p, socket) \/ GivesUp(p, socket)

Step(p) ==
    \/ Marker(p) \/ Acquire(p) \/ (\E socket \in BOOLEAN : TakesOver(p, socket))
    \/ StopScope(p) \/ OldChrome(p) \/ Bind(p) \/ Serve(p)
    \/ ClosesChrome(p) \/ Unlisten(p) \/ Release(p)

Next ==
    \/ \E p \in Pids :
          \/ \E kind \in {"service", "client", "installer"} : Start(p, kind)
          \/ Step(p) \/ Work(p) \/ Launch(p) \/ Crash(p) \/ Signal(p)
    \/ ChromeDies

Spec == Init /\ [][Next]_vars

(* Every process goes on, the installer's steps end, and the manager starts  *)
(* a failed unit again (Restart=on-failure) up to its limit.                 *)
EndsItself(p) == Work(p) /\ proc'[p] = Dead
Restart == unit.state = "failed" /\ \E p \in Pids : Start(p, "service")
LiveSpec ==
    /\ Spec /\ WF_vars(Restart)
    /\ \A p \in Pids : WF_vars(Step(p)) /\ WF_vars(EndsItself(p))

-----------------------------------------------------------------------------
(* A broker that accepts calls is the elected one and the one that clients   *)
(* reach: it holds the lock and the socket path is its own, from the moment  *)
(* it listens until it closed its listener.                                  *)
ListenerIsElected ==
    \A p \in Pids : proc[p].listens /\ ~Is(p, {"legacy"}) => Holds(p) /\ OnSocket(p)

(* Graceful closure of Chrome precedes the release of the lock, so that a    *)
(* process that ended in its own time leaves none: what the doc says, and    *)
(* false for the Chrome of a start that was under way.                       *)
ReleasedWithoutChrome == chrome.on => chrome.by \notin ghost.well
(* What the code keeps of it: every other Chrome is closed before.           *)
OnlyLateOutlives == chrome.on => chrome.by \notin ghost.well \ ghost.late

(* A takeover signals brokers only, and what it kills after the grace period *)
(* is the process it had asked to end, whoever has its pid by then.          *)
TakeoverIsIdentified == ghost.hit \subseteq Brokers /\ ghost.forced \subseteq ghost.asked

(* Once the service accepts calls the profile's Chrome is its own, whatever  *)
(* a predecessor left running.                                               *)
ServiceOwnsChrome ==
    \A p \in Pids : Is(p, {"service"}) /\ proc[p].listens /\ chrome.on
                        => chrome.by = proc[p].life

(* The last holds where no broker of the old release can launch its Chrome   *)
(* beside the service.                                                       *)
ElectionSafe ==
    /\ TypeOK /\ ListenerIsElected /\ OnlyLateOutlives /\ TakeoverIsIdentified
    /\ ~Legacy => ServiceOwnsChrome

(* A takeover ends even if the holder cannot prove its Chrome closed and     *)
(* keeps the lock: no start of a broker hangs.                               *)
StartsEnd == \A p \in Pids : Starting(p) ~> ~Starting(p)

(* After a failure the unit serves again, unless it is stopped or has used   *)
(* up its starts.                                                            *)
Serving == \E p \in Pids : Is(p, {"service"}) /\ proc[p].pc = "serve"
ServiceReturns ==
    unit.state = "failed" ~> \/ Serving \/ unit.state = "stopped"
                             \/ unit.state = "failed" /\ unit.starts = StartLimit
=============================================================================
