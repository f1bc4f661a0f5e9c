--------------------------- MODULE BrowserProcess ---------------------------
(***************************************************************************)
(* One launch of Chrome and its end: BrowserProcessOwner of apps/mcp/src/  *)
(* bot/browser-process-owner.ts, with the process helpers of               *)
(* browser-process-runtime.ts and the systemd scope of browser-scope.ts.   *)
(*                                                                          *)
(* The owner starts once.  close() may ask to cancel a start that is still  *)
(* in flight, forceCloseOwnedProcessTree may come at any time, and Chrome   *)
(* forks, publishes its SingletonLock and dies on its own clock.  Code      *)
(* between two awaits is one step; a bounded wait may run out.              *)
(***************************************************************************)
EXTENDS Naturals

CONSTANTS
    Hosts,       \* the hosts to start on: see HostType
    Forcers,     \* calls of forceCloseOwnedProcessTree
    MaxFailures  \* bound: failed steps, waits that run out, unreadable states, crashes

(* linuxBrowserUsesScope; process.platform is linux; Chrome is spawned here, *)
(* else by launchPersistentContext; another Chrome holds the profile.        *)
HostType == [scoped : BOOLEAN, linux : BOOLEAN, spawns : BOOLEAN, held : BOOLEAN]

ProcessConstants ==
    /\ Hosts \subseteq HostType /\ \A h \in Hosts : h.scoped => h.linux
    /\ {"start", "close"} \cap Forcers = {}
    /\ MaxFailures \in Nat

VARIABLES
    host,    \* the host, which stays
    ours,    \* this launch's Chrome: forked comes before its scope and SingletonLock
    other,   \* the Chrome that held the profile before
    own,     \* the owner's fields
    start,   \* where startOnce is
    pw,      \* the promise of launchPersistentContext
    closes,  \* the runs of closeBrowser and of the forced close
    reaper,  \* monitorCancelledStartProcess
    answer,  \* what close() and each forced close returned
    faults,
    hit,     \* the Chromes that were signalled
    dropped  \* the start gave up on a Chrome that still ran

processVars == <<host, ours, other, own, start, pw, closes, reaper, answer, faults, hit, dropped>>
world == <<ours, other, hit>>

Closers == {"start", "close"} \cup Forcers
States == {"closed", "force_closed_unproven", "unknown"}
Preparing == {"channel", "proxy", "display", "geo", "policy"}
StartPCs == Preparing \cup
            {"idle", "endpoint", "identity", "unspawn", "connect", "permissions", "pages",
             "launching", "late", "ownership", "disown", "closing", "catch", "catching",
             "done", "failed"}

UsesScope == host.scoped
Linux == host.linux

Idle == [pc |-> "idle", knows |-> "none", owns |-> FALSE]

ProcessTypeOK ==
    /\ host \in Hosts
    /\ ours \in {"none", "forked", "up", "quitting", "dead"}
    /\ other \in {"none", "up", "quitting", "dead"}
    /\ own \in [child : BOOLEAN, childId : BOOLEAN, holder : BOOLEAN,
                proof : {"none", "own", "other"}, context : BOOLEAN, launched : BOOLEAN,
                cancel : BOOLEAN, committed : BOOLEAN, settled : BOOLEAN,
                inFlight : BOOLEAN, fallback : States \cup {"none"}]
    /\ start \in StartPCs
    /\ pw \in {"none", "pending", "resolved", "rejected"}
    /\ closes \in [Closers -> [pc : {"idle", "flush", "wait"},
                                knows : {"none", "own", "other"}, owns : BOOLEAN]]
    /\ reaper \in {"off", "on", "wait", "over"}
    /\ answer \in [Closers \ {"start"} ->
                      States \cup {"none", "pending", "early", "raced", "error"}]
    /\ faults \in 0..MaxFailures /\ hit \subseteq {"own", "other"} /\ dropped \in BOOLEAN
    /\ own.settled <=> start \in {"done", "failed"}

ProcessInit ==
    /\ host \in Hosts
    /\ ours = "none" /\ other = IF host.held THEN "up" ELSE "none"
    /\ own = [child |-> FALSE, childId |-> FALSE, holder |-> FALSE, proof |-> "none",
              context |-> FALSE, launched |-> FALSE, cancel |-> FALSE, committed |-> FALSE,
              settled |-> FALSE, inFlight |-> FALSE, fallback |-> "none"]
    /\ start = "idle" /\ pw = "none"
    /\ closes = [c \in Closers |-> Idle] /\ reaper = "off"
    /\ answer = [c \in Closers \ {"start"} |-> "none"]
    /\ faults = 0 /\ hit = {} /\ dropped = FALSE

-----------------------------------------------------------------------------
NoFault == UNCHANGED faults
Fails == faults < MaxFailures /\ faults' = faults + 1
Outlasted == IF ours \in {"forked", "up", "quitting"} THEN Fails ELSE NoFault

(* The process behind an identity; profileProcessIdentityState of it.        *)
Alive(who) == CASE who = "own" -> ours \in {"forked", "up", "quitting"}
                [] who = "other" -> other \in {"up", "quitting"}
                [] OTHER -> FALSE
(* currentProfileHolderPid, and scopePopulated.                              *)
Holder == IF ours \in {"up", "quitting"} THEN "own"
          ELSE IF other \in {"up", "quitting"} THEN "other"
          ELSE "none"
Populated == ours \in {"up", "quitting"}

(* Mutated forms, named Operator_Fault, precede the operator they distort;   *)
(* nothing refers to them but the mutation runs of PROJECT.json.             *)

(* currentOwnedProfileIdentity                                               *)
Current == IF own.proof # "none" THEN own.proof
           ELSE IF own.childId \/ own.holder THEN "own"
           ELSE Holder

(* signalOwnedChromeProcessTree: SIGINT lets a Chrome that is up shut down   *)
(* in its own time; SIGKILL ends it.                                         *)
SignalTree(who, kill) ==
    LET after(p) == IF kill \/ p = "forked" THEN "dead" ELSE "quitting"
    IN /\ ours' = IF who = "own" /\ Alive("own") THEN after(ours) ELSE ours
       /\ other' = IF who = "other" /\ Alive("other") THEN after(other) ELSE other
       /\ hit' = IF Alive(who) THEN hit \cup {who} ELSE hit

-----------------------------------------------------------------------------
(* Chrome itself: it comes up, quits when asked, or crashes; and the launch  *)
(* of Playwright, which ends the Chrome of a launch it rejects.              *)
ChromeUp == ours = "forked" /\ ours' = "up" /\ NoFault /\ UNCHANGED <<other, hit, pw>>
ChromeEnds ==
    /\ \/ ours = "quitting" /\ ours' = "dead" /\ NoFault /\ UNCHANGED other
       \/ other = "quitting" /\ other' = "dead" /\ NoFault /\ UNCHANGED ours
       \/ Alive("own") /\ ours' = "dead" /\ Fails /\ UNCHANGED other
    /\ UNCHANGED <<hit, pw>>
Playwright ==
    /\ pw = "pending"
    /\ \/ ours = "none" /\ ours' = "forked" /\ NoFault /\ UNCHANGED pw
       \/ ours = "up" /\ pw' = "resolved" /\ NoFault /\ UNCHANGED ours
       \/ /\ pw' = "rejected" /\ ours' = "dead"
          /\ IF ours = "dead" THEN NoFault ELSE Fails
    /\ UNCHANGED <<other, hit>>
External == (ChromeUp \/ ChromeEnds \/ Playwright) /\ UNCHANGED <<own, start, closes, reaper, answer, dropped>>

-----------------------------------------------------------------------------
(* The synchronous head of closeBrowser: it captures what it will end and    *)
(* clears the fields, all of them where processes are tracked one by one.    *)
CloseHead(c, o) ==
    LET who == IF UsesScope THEN IF o.childId THEN "own" ELSE "none"
               ELSE IF o.proof # "none" THEN o.proof
               ELSE IF o.childId \/ o.holder THEN "own"
               ELSE Holder
    IN /\ closes' = [closes EXCEPT ![c] = [pc |-> "flush", knows |-> who, owns |-> FALSE]]
       /\ own' = IF UsesScope THEN [o EXCEPT !.child = FALSE, !.context = FALSE]
                 ELSE [o EXCEPT !.child = FALSE, !.childId = FALSE, !.holder = FALSE,
                                !.context = FALSE, !.launched = FALSE,
                                !.proof = IF @ = "none" /\ Alive(who) THEN who ELSE @]

Throw(o) == start' = "catch" /\ own' = o /\ UNCHANGED closes
StartCloses(o) == start' = "closing" /\ CloseHead("start", o)

(* closeBrowser returned to its caller, with o the owner's fields.           *)
Returns(c, state, o) ==
    /\ closes' = [closes EXCEPT ![c] = Idle]
    /\ IF c = "start"
       THEN /\ start' = IF start = "closing" THEN "catch" ELSE "failed"
            /\ own' = [o EXCEPT !.settled = start # "closing"]
            /\ UNCHANGED answer
       ELSE /\ answer' = [answer EXCEPT ![c] =
                   IF @ = "early" /\ ~own.settled /\ state # "error" THEN "unknown" ELSE state]
            /\ own' = o /\ UNCHANGED start

(* Pages and contexts get a second each to close; then SIGINT, which lets    *)
(* Chrome flush its profile, goes to the process or to the whole scope.      *)
CloseFlushes(c) ==
    /\ closes[c].pc = "flush"
    /\ LET who == IF ~UsesScope THEN closes[c].knows ELSE IF Populated THEN "own" ELSE "none"
       IN /\ SignalTree(who, FALSE)
          /\ closes' = [closes EXCEPT ![c].pc = "wait", ![c].knows = who]
    /\ UNCHANGED <<own, start, pw, reaper, answer, faults, dropped>>

(* stopBrowserScope and browserScopeIsEmpty: what SIGINT does not end in     *)
(* time SIGKILL does; a scope that does not empty is an error.               *)
ScopeEnds(c) ==
    /\ closes[c].pc = "wait" /\ UsesScope
    /\ LET stopped == closes[c].knows = "own"
           owned == c \notin Forcers \/ closes[c].owns
       IN \/ /\ ~stopped \/ ~Populated
             /\ Returns(c, IF owned /\ ~Populated THEN "closed" ELSE "unknown", own)
             /\ UNCHANGED <<world, faults, dropped>>
          \/ /\ stopped /\ Populated /\ SignalTree("own", TRUE) /\ NoFault
             /\ Returns(c, IF owned THEN "closed" ELSE "unknown", own) /\ UNCHANGED dropped
          \/ /\ stopped /\ Populated /\ Fails /\ Returns(c, "error", own)
             /\ dropped' = (dropped \/ c = "start") /\ UNCHANGED world
    /\ UNCHANGED <<pw, reaper>>

(* closeProfileWithProof: the identity's end is the only proof of closure;   *)
(* a Chrome that outlives its grace is killed, which proves nothing yet.     *)
ProofEnds(c) ==
    /\ closes[c].pc = "wait" /\ ~UsesScope
    /\ LET who == closes[c].knows
           released == [own EXCEPT !.proof = IF @ = who THEN "none" ELSE @]
       IN \/ who = "none" /\ Returns(c, "unknown", own) /\ UNCHANGED <<world, faults>>
          \/ /\ who # "none" /\ ~Alive(who)
             /\ Returns(c, "closed", released) /\ UNCHANGED <<world, faults>>
          \/ /\ Alive(who) /\ SignalTree(who, TRUE) /\ NoFault
             /\ \E o \in {own, released} : Returns(c, "force_closed_unproven", o)
          \/ Alive(who) /\ Fails /\ Returns(c, "unknown", own) /\ UNCHANGED world
    /\ UNCHANGED <<pw, reaper, dropped>>
CloseEnds(c) == ScopeEnds(c) \/ ProofEnds(c)

-----------------------------------------------------------------------------
(* start(): refused once a close was asked for, and memoised.                *)
Begin ==
    /\ start = "idle" /\ answer["close"] = "none"
    /\ start' = "channel"
    /\ UNCHANGED <<ours, other, own, pw, closes, reaper, answer, faults, hit, dropped>>

(* startBrowser up to the launch.  Each await is followed by a look at the   *)
(* cancellation, but for the one that brings up the display.  A profile with *)
(* a live holder is refused.                                                 *)
After(pc) == CASE pc = "channel" -> "proxy" [] pc = "proxy" -> "display"
               [] pc = "display" -> "geo" [] pc = "geo" -> "policy"
Prepare ==
    /\ start \in Preparing \ {"policy"}
    /\ \/ /\ IF \/ own.cancel /\ start # "display"
                \/ start = "geo" /\ Holder # "none"
             THEN Throw(own)
             ELSE start' = After(start) /\ UNCHANGED <<own, closes>>
          /\ NoFault
       \/ start \in {"proxy", "display"} /\ Fails /\ Throw(own)
    /\ UNCHANGED <<world, pw, reaper, answer, dropped>>

(* commitProfileLaunch and the spawn of Chrome, whose identity is read at    *)
(* once if it can be; the fallback looks at the cancellation only inside the *)
(* race of its launch.                                                       *)
Spawn ==
    /\ start = "policy"
    /\ \/ /\ host.spawns /\ own.cancel /\ Throw(own) /\ NoFault /\ UNCHANGED <<world, pw>>
       \/ /\ host.spawns /\ ~own.cancel /\ ours' = "forked" /\ start' = "endpoint"
          /\ \E seen \in IF UsesScope THEN {FALSE} ELSE BOOLEAN :
                own' = [own EXCEPT !.child = TRUE, !.committed = TRUE, !.childId = seen,
                                   !.proof = IF seen THEN "own" ELSE @]
          /\ NoFault /\ UNCHANGED <<other, hit, pw, closes>>
       \/ /\ ~host.spawns /\ start' = "launching" /\ pw' = "pending"
          /\ own' = [own EXCEPT !.inFlight = TRUE]
          /\ NoFault /\ UNCHANGED <<world, closes>>
       \/ Fails /\ Throw(own) /\ UNCHANGED <<world, pw>>
    /\ UNCHANGED <<reaper, answer, dropped>>

(* waitForOwnedDevtoolsEndpoint; in a scope the identity is read from the    *)
(* SingletonLock, else from the child, in a bounded wait of its own.         *)
Endpoint ==
    /\ start = "endpoint"
    /\ \/ /\ ours = "up" /\ NoFault
          /\ IF UsesScope THEN start' = "connect" /\ own' = [own EXCEPT !.childId = TRUE]
             ELSE /\ start' = IF own.childId \/ ~Linux THEN "connect" ELSE "identity"
                  /\ UNCHANGED own
       \/ ours = "dead" /\ start' = "unspawn" /\ NoFault /\ UNCHANGED own
       \/ ours \in {"forked", "quitting"} /\ Fails /\ start' = "unspawn" /\ UNCHANGED own
    /\ UNCHANGED <<world, pw, closes, reaper, answer, dropped>>
Identity ==
    /\ start = "identity"
    /\ \/ /\ Alive("own") /\ own' = [own EXCEPT !.childId = TRUE, !.proof = "own"] /\ NoFault
       \/ ~Alive("own") /\ UNCHANGED own /\ NoFault
       \/ Alive("own") /\ UNCHANGED own /\ Fails
    /\ start' = "connect"
    /\ UNCHANGED <<world, pw, closes, reaper, answer, dropped>>

(* A child without an endpoint is ended: its scope is stopped, or its        *)
(* process killed, if it can be identified.                                  *)
Unspawn ==
    /\ start = "unspawn"
    /\ LET cleared == [own EXCEPT !.child = FALSE, !.childId = FALSE]
       IN \/ /\ UsesScope /\ Populated /\ Fails /\ Throw(own) /\ UNCHANGED world
          \/ /\ UsesScope /\ SignalTree(IF Populated THEN "own" ELSE "none", TRUE)
             /\ Throw(cleared) /\ NoFault
          \/ /\ ~UsesScope /\ (own.childId \/ (Linux /\ Alive("own")))
             /\ SignalTree("own", TRUE) /\ Throw(cleared) /\ NoFault
          \/ /\ ~UsesScope /\ ~own.childId /\ UNCHANGED world
             /\ IF Linux THEN Outlasted ELSE NoFault
             /\ Throw(cleared)
    /\ dropped' = (ours' \in {"forked", "up"})
    /\ UNCHANGED <<pw, reaper, answer>>

(* connectOverCDP; a failure ends the start and leaves Chrome to close().    *)
Connect ==
    /\ start = "connect"
    /\ \/ ours = "up" /\ start' = "permissions" /\ NoFault /\ UNCHANGED <<own, closes>>
       \/ ours # "up" /\ Throw(own) /\ NoFault
       \/ ours = "up" /\ Fails /\ Throw(own)
    /\ UNCHANGED <<world, pw, reaper, answer, dropped>>

(* The launched context becomes the owner's, and whoever holds the profile   *)
(* its process.                                                              *)
Adopted(o) ==
    LET seen == o.childId \/ Holder = "own"
    IN [o EXCEPT !.context = TRUE, !.launched = TRUE, !.holder = seen,
                 !.proof = IF ~UsesScope /\ seen /\ @ = "none" /\ Alive("own") THEN "own" ELSE @]
Adopt(o) ==
    IF o.cancel THEN StartCloses(Adopted(o))
    ELSE start' = "pages" /\ own' = Adopted(o) /\ UNCHANGED closes
Permissions ==
    /\ start = "permissions" /\ Adopt(own) /\ NoFault
    /\ UNCHANGED <<world, pw, reaper, answer, dropped>>

(* initializePages, and the last look at the cancellation in startOnce.      *)
Pages ==
    /\ start = "pages"
    /\ \/ /\ ours = "up" /\ NoFault
          /\ IF own.cancel THEN StartCloses(own)
             ELSE start' = "done" /\ own' = [own EXCEPT !.settled = TRUE] /\ UNCHANGED closes
       \/ (IF ours = "up" THEN Fails ELSE NoFault) /\ Throw(own)
    /\ UNCHANGED <<world, pw, reaper, answer, dropped>>

-----------------------------------------------------------------------------
(* The race of launchCancellablePersistentContext.  A launch that won, but   *)
(* was cancelled meanwhile, is cleaned up; so is what a lost one leaves.     *)
Race ==
    /\ start = "launching"
    /\ \/ /\ pw = "resolved" /\ ~own.cancel
          /\ start' = "ownership" /\ own' = [own EXCEPT !.context = TRUE, !.launched = TRUE]
          /\ UNCHANGED closes
       \/ pw = "rejected" /\ ~own.cancel /\ Throw([own EXCEPT !.inFlight = FALSE])
       \/ own.cancel /\ start' = "late" /\ UNCHANGED <<own, closes>>
    /\ NoFault /\ UNCHANGED <<world, pw, reaper, answer, dropped>>

(* cleanupProfileHolder, again and again until the late launch settles.      *)
CleanUp ==
    /\ start = "late" /\ pw = "pending" /\ Alive("own") /\ Holder = "own"
    /\ Linux \/ own.proof # "none"
    /\ SignalTree("own", ~UsesScope)
    /\ UNCHANGED <<own, start, pw, closes, reaper, answer, faults, dropped>>

(* cleanupCancelled or cleanupProfileHolder of what the launch came to.  A   *)
(* launch that never settles leaves the closure unknown.                     *)
CleanedUp ==
    /\ start = "late"
    /\ LET over(state) == Throw([own EXCEPT !.inFlight = FALSE, !.fallback = state])
           proven == UsesScope \/ Linux \/ own.proof # "none"
       IN \/ /\ pw = "resolved" /\ SignalTree("own", TRUE) /\ NoFault
             /\ over(IF proven THEN "closed" ELSE "unknown")
          \/ /\ pw = "rejected" /\ NoFault /\ UNCHANGED world
             /\ over(IF proven THEN "closed" ELSE "unknown")
          \/ /\ Fails /\ over("unknown") /\ UNCHANGED world
    /\ dropped' = (pw = "pending" \/ ours' = "up")
    /\ UNCHANGED <<pw, reaper, answer>>

(* startPersistentFallbackOwnershipMonitor                                   *)
Monitor ==
    /\ own.inFlight /\ own.proof = "none" /\ ~own.holder /\ Holder = "own"
    /\ own' = [own EXCEPT !.holder = TRUE, !.proof = IF UsesScope THEN @ ELSE "own"]
    /\ UNCHANGED <<ours, other, start, pw, closes, reaper, answer, faults, hit, dropped>>

(* requirePersistentFallbackOwnership: without a proven identity the context *)
(* is closed again; with one the launch is committed, if not cancelled.      *)
Ownership ==
    /\ start = "ownership"
    /\ \/ /\ own.proof # "none" \/ (Linux /\ Holder = "own")
          /\ LET o == [own EXCEPT !.holder = TRUE, !.proof = IF UsesScope THEN @ ELSE "own"]
             IN IF own.cancel THEN Throw(o)
                ELSE Adopt([o EXCEPT !.committed = TRUE, !.inFlight = FALSE])
          /\ NoFault
       \/ /\ own.proof = "none" /\ (IF Linux THEN Outlasted ELSE NoFault)
          /\ start' = "disown" /\ UNCHANGED <<own, closes>>
    /\ UNCHANGED <<world, pw, reaper, answer, dropped>>
Disown ==
    /\ start = "disown"
    /\ LET o == [own EXCEPT !.inFlight = FALSE, !.context = FALSE, !.launched = FALSE]
       IN \/ SignalTree("own", UsesScope) /\ Throw(o) /\ NoFault
          \/ /\ UsesScope /\ Populated /\ Fails /\ UNCHANGED world
             /\ Throw([own EXCEPT !.inFlight = FALSE])
    /\ UNCHANGED <<pw, reaper, answer, dropped>>

-----------------------------------------------------------------------------
(* The catch of startOnce: a cancelled start closes what it has.             *)
Catch ==
    /\ start = "catch"
    /\ IF own.cancel /\ own.fallback = "none"
       THEN start' = "catching" /\ CloseHead("start", own)
       ELSE start' = "failed" /\ own' = [own EXCEPT !.settled = TRUE] /\ UNCHANGED closes
    /\ UNCHANGED <<world, pw, reaper, answer, faults, dropped>>

(* close(): the first call runs, the others share its promise, and any of    *)
(* them may cancel the start.  Every owner was started before.               *)
Close ==
    /\ start # "idle" /\ answer["close"] = "none"
    /\ answer' = [answer EXCEPT !["close"] = "pending"]
    /\ UNCHANGED <<ours, other, own, start, pw, closes, reaper, faults, hit, dropped>>
CancelStart ==
    /\ answer["close"] # "none" /\ ~own.cancel
    /\ own' = [own EXCEPT !.cancel = TRUE]
    /\ UNCHANGED <<ours, other, start, pw, closes, reaper, answer, faults, hit, dropped>>

(* closeAfterStart, closeCancelledStart: before the launch is committed only *)
(* a settled start proves anything.                                          *)
CloseGoes ==
    /\ answer["close"] = "pending" /\ (own.settled \/ own.cancel)
    /\ reaper' = IF own.cancel /\ reaper = "off" THEN "on" ELSE reaper
    /\ IF own.cancel /\ own.fallback # "none"
       THEN /\ answer' = [answer EXCEPT !["close"] = own.fallback]
            /\ UNCHANGED <<own, closes>>
       ELSE /\ answer' = [answer EXCEPT !["close"] =
                             IF own.cancel /\ ~own.committed THEN "early" ELSE "raced"]
            /\ CloseHead("close", own)
    /\ UNCHANGED <<world, start, pw, faults, dropped>>

(* monitorCancelledStartProcess: SIGKILL every 25 ms until the start has     *)
(* settled; a scope is stopped once.                                         *)
Reap ==
    /\ \/ /\ reaper = "on" /\ ~UsesScope /\ ~own.settled /\ Alive(Current)
          /\ SignalTree(Current, TRUE) /\ UNCHANGED reaper
       \/ reaper = "on" /\ ~UsesScope /\ own.settled /\ reaper' = "over" /\ UNCHANGED world
       \/ /\ reaper = "on" /\ UsesScope /\ reaper' = IF Populated THEN "wait" ELSE "over"
          /\ SignalTree(IF Populated THEN "own" ELSE "none", FALSE)
       \/ reaper = "wait" /\ reaper' = "over" /\ SignalTree(IF Populated THEN "own" ELSE "none", TRUE)
    /\ UNCHANGED <<own, start, pw, closes, answer, faults, dropped>>

(* Nothing was launched, and nothing will be.                                *)
Unlaunched_Unsettled == ~own.launched
Unlaunched == own.settled /\ ~own.launched

(* forceCloseOwnedProcessTree: it cancels the start and kills the process it *)
(* knows, or stops the scope.  With no process known, only a start that      *)
(* settled without a launch is closed; without a launch no scope is.         *)
ForceTree(f) ==
    /\ start # "idle" /\ answer[f] = "none"
    /\ IF UsesScope
       THEN /\ own' = [own EXCEPT !.cancel = TRUE]
            /\ closes' = [closes EXCEPT ![f] = [pc |-> "wait",
                   knows |-> IF Populated THEN "own" ELSE "none",
                   owns |-> own.child \/ own.launched]]
            /\ answer' = [answer EXCEPT ![f] = "raced"]
            /\ SignalTree(IF Populated THEN "own" ELSE "none", FALSE) /\ NoFault
       ELSE /\ SignalTree(Current, TRUE) /\ UNCHANGED closes
            /\ IF Current = "none"
               THEN /\ answer' = [answer EXCEPT ![f] =
                           IF Unlaunched THEN "closed" ELSE "unknown"]
                    /\ own' = [own EXCEPT !.cancel = TRUE] /\ NoFault
               ELSE \/ /\ answer' = [answer EXCEPT ![f] = "closed"] /\ NoFault
                       /\ own' = [own EXCEPT !.cancel = TRUE, !.proof = "none"]
                    \/ /\ answer' = [answer EXCEPT ![f] = "unknown"] /\ Fails
                       /\ own' = [own EXCEPT !.cancel = TRUE]
    /\ UNCHANGED <<start, pw, reaper, dropped>>

-----------------------------------------------------------------------------
StartRuns ==
    \/ Prepare \/ Spawn \/ Endpoint \/ Identity \/ Unspawn \/ Connect \/ Permissions
    \/ Pages \/ Race \/ CleanedUp \/ Ownership \/ Disown \/ Catch
Closing(c) == CloseFlushes(c) \/ CloseEnds(c)

ProcessNext ==
    /\ \/ External \/ Begin \/ StartRuns \/ CleanUp \/ Monitor
       \/ Close \/ CancelStart \/ CloseGoes \/ Reap
       \/ \E f \in Forcers : ForceTree(f)
       \/ \E c \in Closers : Closing(c)
    /\ UNCHANGED host

ProcessSpec == ProcessInit /\ [][ProcessNext]_processVars

(* Code goes on, every wait of the start is bounded or ends with Chrome, and *)
(* Playwright settles its launch within its timeout.                         *)
ProcessLiveSpec ==
    /\ ProcessSpec /\ WF_processVars(StartRuns /\ UNCHANGED host)
    /\ WF_processVars(CloseGoes /\ UNCHANGED host) /\ WF_processVars(External /\ UNCHANGED host)
    /\ \A c \in Closers : WF_processVars(Closing(c) /\ UNCHANGED host)

-----------------------------------------------------------------------------
(* An answer of closed is true: no Chrome of this launch runs, and none will. *)
(* Chrome in a scope is told of before it joined it, so there the answer     *)
(* holds from when the start settled; and a start that gave up on a Chrome   *)
(* it could not identify leaves it to nobody.                                *)
ClosedIsGone ==
    /\ ~UsesScope \/ own.settled
    /\ \E c \in DOMAIN answer : answer[c] = "closed"
    /\ ~dropped
    => ~Alive("own")

(* close() lets a Chrome that started well flush its profile: unless a       *)
(* forced close was called it is never killed before it was asked to quit.   *)
QuitBeforeKill ==
    [][start = "done" /\ ours = "up" /\ ours' = "dead"
         => faults' > faults \/ \E f \in Forcers : answer'[f] # "none"]_processVars

(* A Chrome that was told to be closed is gone, whatever the start of it was *)
(* doing meanwhile, and one that started well is asked to quit before it is  *)
(* killed.                                                                   *)
ProcessSafe == [](ProcessTypeOK /\ ClosedIsGone) /\ QuitBeforeKill

(* A start that was cancelled settles, and with it every close.              *)
CancelSettles == own.cancel ~> own.settled
CloseReturns == answer["close"] = "pending" ~> answer["close"] \in States \cup {"error"}

(* A start refused because another Chrome holds the profile leaves it alone. *)
RefusedSparesHolder == "other" \notin hit
=============================================================================
