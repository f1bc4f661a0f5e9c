--------------------------- MODULE BrokerCustody ---------------------------
(***************************************************************************)
(* The broker's custody of the shared Chrome: operate_start calls that     *)
(* launch it, join it or recycle it, sessions that hold tabs of it, and    *)
(* the two callers of close(), the daemon's shutdown and the cleanup of a  *)
(* failed start.                                                           *)
(*                                                                         *)
(* Closing Chrome has two rounds.  close() is one shared promise for each  *)
(* controller; the force-close that follows an unproven close runs once    *)
(* for each caller.  A Chrome is "up" while its connection answers, "lost" *)
(* when only its processes may remain and "gone" when none does.           *)
(***************************************************************************)
EXTENDS Integers, FiniteSets

CONSTANTS
    Calls,         \* operate_start calls
    Daemon,        \* the shutdown of the daemon
    Wants,         \* the proxy each call asks for
    MaxChromes,    \* bound: Chromes launched
    MaxCrashes,    \* bound: connections lost
    CloseMayFail   \* whether a close may end unproven

CustodyAssumption ==
    /\ Daemon \notin Calls
    /\ MaxChromes \in Nat /\ MaxCrashes \in Nat
    /\ CloseMayFail \in BOOLEAN
    /\ DOMAIN Wants = Calls

Actors == Calls \cup {Daemon}
Proxies == {Wants[k] : k \in Calls}
Chromes == 1..MaxChromes
None == 0
Kinds == {"lost", "recycle", "end"}

VARIABLES
    owner,      \* BrokerRuntime.owner: a Chrome, or None
    handle,     \* IdentityRuntime.handle
    launch,     \* the single-flight launch: its Chrome and stage
    proxyOf,    \* the proxy each Chrome was launched under
    chromes,    \* what is true of each Chrome
    closed,     \* the shared promise of close() of each Chrome
    closing,    \* BrokerRuntime.closing
    recycling,  \* BrokerRuntime.recycling
    sessions,   \* calls whose session is in BrokerRuntime.sessions
    at,         \* where each actor is
    crashes

custodyVars == <<owner, handle, launch, proxyOf, chromes, closed, closing, recycling, sessions,
                 at, crashes>>

NoLaunch == [c |-> None, stage |-> "none", closes |-> None]
Here(pc, t) == [pc |-> pc, why |-> "end", tgt |-> t, prior |-> FALSE]
CustodyPCs == {"idle", "bind", "admit", "wait", "attach", "open", "failed", "over", "exited",
        "close", "force"}

CustodyTypeOK ==
    /\ owner \in {None} \cup Chromes
    /\ handle \in {None} \cup Chromes
    /\ launch \in [c : {None} \cup Chromes, stage : {"none", "mkdir", "start", "fail"},
                   closes : {None} \cup Chromes]
    /\ proxyOf \in [Chromes -> Proxies \cup {None}]
    /\ chromes \in [Chromes -> {"unmade", "starting", "up", "lost", "gone"}]
    /\ closed \in [Chromes -> {"no", "closing", "closed", "unknown"}]
    /\ closing \in BOOLEAN
    /\ recycling \in BOOLEAN
    /\ sessions \subseteq Calls
    /\ at \in [Actors -> [pc : CustodyPCs, why : Kinds, tgt : {None} \cup Chromes, prior : BOOLEAN]]
    /\ crashes \in 0..MaxCrashes
    /\ launch.c = None <=> launch.stage = "none"
    /\ \A a \in Actors : at[a].pc = "wait" => a \in Calls /\ launch.c # None

CustodyInit ==
    /\ owner = None
    /\ handle = None
    /\ launch = NoLaunch
    /\ proxyOf = [c \in Chromes |-> None]
    /\ chromes = [c \in Chromes |-> "unmade"]
    /\ closed = [c \in Chromes |-> "no"]
    /\ closing = FALSE
    /\ recycling = FALSE
    /\ sessions = {}
    /\ at = [a \in Actors |-> Here("idle", None)]
    /\ crashes = 0

Pending == {k \in Calls : at[k].pc \in {"wait", "attach"}}
LiveProxy == IF handle # None THEN proxyOf[handle]
             ELSE IF launch.c # None /\ launch.stage # "none" THEN proxyOf[launch.c] ELSE None
Incompatible(k) == (handle # None \/ launch.c # None) /\ LiveProxy # Wants[k]
BrowserLost == owner # None /\ launch.c = None /\ chromes[owner] # "up"

Goes(a, pc) == at' = [at EXCEPT ![a].pc = pc]

(* What an actor does once its close or force-close is proven, or is not.   *)
AfterProof(kind) == CASE kind = "lost" -> "bind" [] kind = "recycle" -> "admit"
                      [] kind = "end" -> "over"
Waiting(c) == {a \in Actors : at[a].pc = "close" /\ at[a].tgt = c}
FailsOn(c) == launch.stage = "fail" /\ launch.closes = c

Promise == IF owner = None THEN "no" ELSE closed[owner]

(* Asking for the close of owner: nothing to close, a close already found   *)
(* unproven, or a promise to await.  kind says who asks.                    *)
ClosesOwner(a, kind, p) ==
    LET pc == IF owner = None THEN AfterProof(kind)
              ELSE IF Promise = "unknown" THEN "force" ELSE "close"
    IN /\ at' = [at EXCEPT ![a] = [pc |-> pc, why |-> kind, tgt |-> owner, prior |-> p]]
       /\ closed' = IF pc = "close" THEN [closed EXCEPT ![owner] = "closing"] ELSE closed
       /\ handle' = IF owner = None THEN None ELSE handle

(* acquire(), up to its first await.  Losing the browser drops every tab    *)
(* family before the old process is proven closed.                          *)
Refused(k) ==
    /\ at[k].pc = "idle" /\ closing
    /\ Goes(k, "failed")
    /\ UNCHANGED <<owner, handle, launch, proxyOf, chromes, closed, closing, recycling, sessions, crashes>>

Acquires(k) ==
    /\ at[k].pc = "idle" /\ ~closing /\ ~BrowserLost
    /\ Goes(k, "bind")
    /\ UNCHANGED <<owner, handle, launch, proxyOf, chromes, closed, closing, recycling, sessions, crashes>>

AcquireLost(k) ==
    /\ at[k].pc = "idle" /\ ~closing /\ BrowserLost
    /\ sessions' = {}
    /\ ClosesOwner(k, "lost", FALSE)
    /\ UNCHANGED <<owner, launch, proxyOf, chromes, closing, recycling, crashes>>

(* The compatibility check that follows bindAccount.                        *)
Siblings == sessions # {} \/ Pending # {}

(* Mutated forms, named Operator_Fault, precede the operator they distort;
   nothing refers to them but the mutation runs of PROJECT.json. *)
MayRecycle_Admitting(k) == Incompatible(k) /\ ~recycling /\ sessions = {}

MayRecycle(k) == Incompatible(k) /\ ~recycling /\ ~Siblings

Conflicts(k) ==
    /\ at[k].pc = "bind"
    /\ recycling \/ (Incompatible(k) /\ ~MayRecycle(k))
    /\ Goes(k, "failed")
    /\ UNCHANGED <<owner, handle, launch, proxyOf, chromes, closed, closing, recycling, sessions, crashes>>

Recycle(k) ==
    /\ at[k].pc = "bind" /\ MayRecycle(k)
    /\ recycling' = (owner # None)
    /\ ClosesOwner(k, "recycle", FALSE)
    /\ UNCHANGED <<owner, launch, proxyOf, chromes, closing, sessions, crashes>>

(* IdentityRuntime.acquire: join the live Chrome, await the launch under    *)
(* way, or launch.  After the recycle's await the drain is looked at again. *)
Admits(k) ==
    \/ at[k].pc = "bind" /\ ~recycling /\ ~Incompatible(k)
    \/ at[k].pc = "admit" /\ ~closing /\ ~Incompatible(k)

DrainedMeanwhile(k) ==
    /\ at[k].pc = "admit" /\ (closing \/ Incompatible(k))
    /\ Goes(k, "failed")
    /\ UNCHANGED <<owner, handle, launch, proxyOf, chromes, closed, closing, recycling, sessions, crashes>>

Join(k) ==
    /\ Admits(k) /\ handle # None
    /\ at' = [at EXCEPT ![k] = Here(IF closing THEN "failed" ELSE "attach", handle)]
    /\ UNCHANGED <<owner, handle, launch, proxyOf, chromes, closed, closing, recycling, sessions, crashes>>

Await(k) ==
    /\ Admits(k) /\ handle = None /\ launch.c # None
    /\ Goes(k, "wait")
    /\ UNCHANGED <<owner, handle, launch, proxyOf, chromes, closed, closing, recycling, sessions, crashes>>

LaunchChrome(k) ==
    /\ Admits(k) /\ handle = None /\ launch.c = None
    /\ \E c \in Chromes :
         /\ chromes[c] = "unmade" /\ \A d \in Chromes : d < c => chromes[d] # "unmade"
         /\ launch' = [c |-> c, stage |-> "mkdir", closes |-> None]
         /\ proxyOf' = [proxyOf EXCEPT ![c] = Wants[k]]
    /\ Goes(k, "wait")
    /\ UNCHANGED <<owner, handle, chromes, closed, closing, recycling, sessions, crashes>>

LaunchOwner_Late ==
    /\ launch.stage = "mkdir"
    /\ launch' = [launch EXCEPT !.stage = "start"]
    /\ chromes' = [chromes EXCEPT ![launch.c] = "starting"]
    /\ UNCHANGED <<owner, handle, proxyOf, closed, closing, recycling, sessions, at, crashes>>

LaunchOwner ==
    /\ launch.stage = "mkdir"
    /\ launch' = [launch EXCEPT !.stage = "start"]
    /\ owner' = launch.c
    /\ chromes' = [chromes EXCEPT ![launch.c] = "starting"]
    /\ UNCHANGED <<handle, proxyOf, closed, closing, recycling, sessions, at, crashes>>

(* The launch settles; every call that awaits it resumes at once.           *)
Resume(pc, t) ==
    at' = [a \in Actors |-> IF at[a].pc = "wait" THEN Here(pc, t) ELSE at[a]]

LaunchUp ==
    /\ launch.stage = "start"
    /\ chromes[launch.c] = "starting"
    /\ \A d \in Chromes : chromes[d] # "up"
    /\ chromes' = [chromes EXCEPT ![launch.c] = "up"]
    /\ handle' = IF handle = None THEN launch.c ELSE handle
    /\ Resume(IF closing THEN "failed" ELSE "attach", launch.c)
    /\ launch' = NoLaunch
    /\ UNCHANGED <<owner, proxyOf, closed, closing, recycling, sessions, crashes>>

(* start() rejects or times out; the catch closes whatever owner names, and *)
(* an owner another caller dropped counts as closed.                        *)
LaunchFails ==
    /\ launch.stage = "start"
    /\ IF owner = None \/ Promise = "unknown"
       THEN /\ launch' = NoLaunch
            /\ Resume("failed", None)
            /\ closing' = (closing \/ owner # None)
            /\ UNCHANGED closed
       ELSE /\ launch' = [launch EXCEPT !.stage = "fail", !.closes = owner]
            /\ closed' = [closed EXCEPT ![owner] = "closing"]
            /\ UNCHANGED <<closing, at>>
    /\ UNCHANGED <<owner, handle, proxyOf, chromes, recycling, sessions, crashes>>

(* attachSessionPage: a page opens only in a Chrome that answers.           *)
Attach(k) ==
    /\ at[k].pc = "attach" /\ chromes[at[k].tgt] = "up"
    /\ sessions' = sessions \cup {k}
    /\ Goes(k, "open")
    /\ UNCHANGED <<owner, handle, launch, proxyOf, chromes, closed, closing, recycling, crashes>>

AttachFails(k) ==
    /\ at[k].pc = "attach"
    /\ Goes(k, "failed")
    /\ UNCHANGED <<owner, handle, launch, proxyOf, chromes, closed, closing, recycling, sessions, crashes>>

(* release(): the tabs close, or the whole Chrome is force-closed and the   *)
(* tab family stays quarantined.                                            *)
ReleaseTabs(k) ==
    /\ at[k].pc = "open" /\ k \in sessions
    /\ sessions' = sessions \ {k}
    /\ Goes(k, "over")
    /\ UNCHANGED <<owner, handle, launch, proxyOf, chromes, closed, closing, recycling, crashes>>

ReleaseUncertain(k) ==
    /\ CloseMayFail
    /\ at[k].pc = "open" /\ k \in sessions
    /\ owner # None /\ chromes[owner] = "up"
    /\ chromes' = [chromes EXCEPT ![owner] = "lost"]
    /\ UNCHANGED <<owner, handle, launch, proxyOf, closed, closing, recycling, sessions, at, crashes>>

(* close(), of the daemon and of cleanupAdmission.                          *)
CanClose == Pending = {} /\ sessions = {}

CloseStarts(a) ==
    /\ \/ a = Daemon /\ at[a].pc = "idle"
       \/ a # Daemon /\ at[a].pc = "failed" /\ closing
    /\ CanClose
    /\ closing' = TRUE
    /\ ClosesOwner(a, "end", closing)
    /\ UNCHANGED <<owner, launch, proxyOf, chromes, recycling, sessions, crashes>>

CleanupEnds(k) ==
    /\ at[k].pc = "failed" /\ ~(closing /\ CanClose)
    /\ Goes(k, "over")
    /\ UNCHANGED <<owner, handle, launch, proxyOf, chromes, closed, closing, recycling, sessions, crashes>>

(* The shared promise settles: everyone who awaits it resumes together, the *)
(* starts of a failed launch among them.                                    *)
Settles(c, pc) ==
    at' = [a \in Actors |->
             IF a \in Waiting(c) THEN [at[a] EXCEPT !.pc = pc[at[a].why]]
             ELSE IF at[a].pc = "wait" /\ FailsOn(c) THEN Here("failed", None)
             ELSE at[a]]

CloseProves(c) ==
    /\ closed[c] = "closing"
    /\ closed' = [closed EXCEPT ![c] = "closed"]
    /\ chromes' = [chromes EXCEPT ![c] = "gone"]
    /\ Settles(c, [kind \in Kinds |-> AfterProof(kind)])
    /\ owner' = None
    /\ handle' = IF Waiting(c) # {} THEN None ELSE handle
    /\ recycling' = (recycling /\ \A a \in Waiting(c) : at[a].why # "recycle")
    /\ launch' = IF FailsOn(c) THEN NoLaunch ELSE launch
    /\ UNCHANGED <<proxyOf, closing, sessions, crashes>>

CloseUnproven(c) ==
    /\ CloseMayFail
    /\ closed[c] = "closing"
    /\ closed' = [closed EXCEPT ![c] = "unknown"]
    /\ chromes' = [chromes EXCEPT ![c] = IF @ = "up" THEN "lost" ELSE @]
    /\ Settles(c, [kind \in Kinds |-> "force"])
    /\ closing' = (closing \/ FailsOn(c))
    /\ launch' = IF FailsOn(c) THEN NoLaunch ELSE launch
    /\ UNCHANGED <<owner, handle, proxyOf, recycling, sessions, crashes>>

(* A close that fails undoes the closing it set itself.                     *)
Restored(a) == IF at[a].why = "end" THEN at[a].prior ELSE closing

ForceProves(a) ==
    /\ at[a].pc = "force"
    /\ chromes' = [chromes EXCEPT ![at[a].tgt] = "gone"]
    /\ owner' = None
    /\ handle' = None
    /\ Goes(a, AfterProof(at[a].why))
    /\ recycling' = (recycling /\ at[a].why # "recycle")
    /\ UNCHANGED <<launch, proxyOf, closed, closing, sessions, crashes>>

ForceUnproven(a) ==
    /\ at[a].pc = "force"
    /\ chromes[at[a].tgt] # "gone"
    /\ Goes(a, IF at[a].why # "end" THEN "failed" ELSE IF a = Daemon THEN "idle" ELSE "over")
    /\ recycling' = (recycling /\ at[a].why # "recycle")
    /\ closing' = Restored(a)
    /\ UNCHANGED <<owner, handle, launch, proxyOf, chromes, closed, sessions, crashes>>

(* The daemon has closed its listeners and drops the profile lock.          *)
Exit ==
    /\ at[Daemon].pc = "over"
    /\ Goes(Daemon, "exited")
    /\ UNCHANGED <<owner, handle, launch, proxyOf, chromes, closed, closing, recycling, sessions, crashes>>

(* The browser side: closing it or a crash ends its connection.             *)
Disconnects(c) ==
    /\ chromes[c] = "up" /\ closed[c] = "closing"
    /\ chromes' = [chromes EXCEPT ![c] = "lost"]
    /\ UNCHANGED <<owner, handle, launch, proxyOf, closed, closing, recycling, sessions, at, crashes>>

ChromeCrashes(c) ==
    /\ chromes[c] = "up" /\ crashes < MaxCrashes
    /\ chromes' = [chromes EXCEPT ![c] = "lost"]
    /\ crashes' = crashes + 1
    /\ UNCHANGED <<owner, handle, launch, proxyOf, closed, closing, recycling, sessions, at>>

Calling(k) ==
    \/ Refused(k) \/ Acquires(k) \/ AcquireLost(k) \/ Conflicts(k) \/ Recycle(k)
    \/ Join(k) \/ Await(k) \/ LaunchChrome(k) \/ Attach(k) \/ AttachFails(k)
    \/ ReleaseTabs(k) \/ ReleaseUncertain(k) \/ CleanupEnds(k)

Launching == LaunchOwner \/ LaunchUp \/ LaunchFails

(* A recycle's caller goes on within the turn that settles its close.       *)
Turn(a) == \A k \in Calls \ {a} : at[k].pc # "admit"
Running(a) == at[Daemon].pc # "exited" /\ Turn(a)

CustodyNext ==
    \/ \E k \in Calls : Running(k) /\ (Calling(k) \/ DrainedMeanwhile(k))
    \/ \E a \in Actors : Running(a) /\ (CloseStarts(a) \/ ForceProves(a) \/ ForceUnproven(a))
    \/ Running(Daemon) /\ (Launching \/ Exit)
    \/ \E c \in Chromes : Running(Daemon)
         /\ (CloseProves(c) \/ CloseUnproven(c) \/ Disconnects(c) \/ ChromeCrashes(c))

CustodySpec == CustodyInit /\ [][CustodyNext]_custodyVars

(* Every await of an acquire and of a close ends: the launch by its timer,  *)
(* a close and a force-close by the deadlines of their rounds.              *)
Proceeds(a) == Running(a) /\
    \/ ForceProves(a) \/ ForceUnproven(a)
    \/ a \in Calls /\ (Calling(a) \/ DrainedMeanwhile(a) \/ CloseStarts(a))
CustodyLiveSpec ==
    /\ CustodySpec
    /\ \A a \in Actors : WF_custodyVars(Proceeds(a))
    /\ WF_custodyVars(Running(Daemon) /\ (Launching \/ Exit))
    /\ \A c \in Chromes : WF_custodyVars(Running(Daemon) /\ (CloseProves(c) \/ CloseUnproven(c)))

-----------------------------------------------------------------------------
(* A Chrome launched after one whose close was not proven: a force-close of  *)
(* the first that is proven late forgets whatever is owned by then.         *)
Followed(c) == \E d \in Chromes : d < c /\ closed[d] = "unknown"

(* A Chrome that answers is the one the runtime names as its own, so close, *)
(* recycle and the drain of an unproven tab reach it.                       *)
LiveIsOwned == \A c \in Chromes : chromes[c] = "up" => owner = c \/ Followed(c)

(* A proxy change takes the shared Chrome from no session and from no start *)
(* still being admitted.                                                    *)
NoSiblingLoses == recycling => sessions = {} /\ Pending = {}

(* While the cell drains, or holds a Chrome it could not close, no session  *)
(* opens, though starts admitted earlier go on.                             *)
NoneWhileDraining ==
    [][\A k \in Calls : k \in sessions' \ sessions => ~closing \/ Followed(at[k].tgt)]_custodyVars

(* Whatever closes are proven, late or never: a live Chrome is owned, and   *)
(* the drain of the cell, by the daemon or by a failed start, opens nothing,*)
(* but in a Chrome that follows one whose close was not proven.             *)
CustodySafe == [](CustodyTypeOK /\ LiveIsOwned) /\ NoneWhileDraining

(* Every start is answered, whatever its siblings, crashes and recycles do, *)
(* and a recycle never leaves the cell refusing as if it were under way.    *)
StartsSettle == \A k \in Calls :
    at[k].pc # "idle" ~> (at[k].pc \in {"open", "over"} \/ at[Daemon].pc = "exited")
RecyclesEnd == recycling ~> (~recycling \/ at[Daemon].pc = "exited")

(* identity-runtime.ts on forgetAfterShutdown: the owner must prove closure *)
(* before calling it.                                                       *)
ForgetsOnlyProven == [][owner # None /\ owner' = None => chromes'[owner] \notin {"starting", "up"}]_custodyVars

(* runtime.ts and its test on closing: a drain under way, or an owner that  *)
(* could not be closed and is retained.                                     *)
DrainUnderWay == at[Daemon].pc \in {"over", "exited"}
                 \/ \E a \in Actors : at[a].pc \in {"close", "force"} /\ at[a].why = "end"
ClosingMeansTwoThings == closing => owner # None \/ DrainUnderWay

(* browser-broker.md: Chrome is closed before the profile lock is released. *)
ClosedBeforeExit == at[Daemon].pc = "exited" => \A c \in Chromes : chromes[c] \notin {"starting", "up"}
============================================================================
