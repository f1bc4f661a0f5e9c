--------------------------- MODULE BrokerSessions ---------------------------
(***************************************************************************)
(* One operator session of the broker, from the start that opens it to the *)
(* release of its tabs: its queue of commands, the operate_finish calls    *)
(* and the drop of its connection that end it, the expiry of a shutdown,   *)
(* and the loss of the Chrome below it.                                    *)
(*                                                                         *)
(* Three tables know the session: the actors of BrokerAuthority, the       *)
(* sessions of lifecycle.ts and the tab families of BrokerRuntime.         *)
(***************************************************************************)
EXTENDS Naturals, FiniteSets, Sequences, SequencesExt

CONSTANTS
    Operations,    \* operator commands the client may send
    Logins,        \* those that resolve their target before their turn
    Finishes,      \* operate_finish calls
    Drop,          \* the close that follows the loss of the connection
    SlowClose,     \* whether a close may outlast the 4 s answer
    MayLose        \* whether Chrome may die and be replaced

SessionsAssumption ==
    /\ Logins \subseteq Operations
    /\ Drop \notin Finishes
    /\ SlowClose \in BOOLEAN /\ MayLose \in BOOLEAN

VARIABLES
    link,        \* the client's connection
    opening,     \* BrokerAuthority.open
    aborted,     \* what was aborted: commands, and the start
    actor,       \* the entry of BrokerAuthority.actors
    fenced,      \* actor.abort
    cmd,         \* each command
    queue,       \* actor.tail: the commands invoked and not settled
    registered,  \* the entry of lifecycle's sessions
    ending,      \* session.closing
    forced,      \* session.terminalTeardownOwner.forced
    trans,       \* the terminal transition under way
    retry,       \* finishCleanupRetries
    verdict,     \* what each closer was told
    family,      \* the entry of BrokerRuntime.sessions, and its proof
    tabs,        \* the pages
    release,     \* BrokerRuntime.releases
    expiry,      \* the shutdown's close
    browser      \* the Chrome of the pages

sessionVars == <<link, opening, aborted, actor, fenced, cmd, queue, registered, ending,
                 forced, trans, retry, verdict, family, tabs, release, expiry, browser>>
actorVars == <<opening, aborted, actor, fenced>>
commandVars == <<cmd, queue>>
closeVars == <<ending, forced, trans, retry>>
tabVars == <<family, tabs, release, browser>>

TheStart == "start"
Nobody == "nobody"
Enders == Finishes \cup {Drop}
NoTrans == [by |-> Nobody, stage |-> "none", again |-> FALSE]
NoRelease == [on |-> FALSE, had |-> FALSE, hook |-> FALSE]
CallLeases == {c \in Operations : cmd[c] \in {"preparing", "running"}}

SessionTypeOK ==
    /\ link \in {"up", "dropped", "closed"}
    /\ opening \in {"creating", "made", "naming", "cleaning", "ready", "failed"}
    /\ aborted \subseteq Operations \cup {TheStart}
    /\ actor \in {"none", "live", "gone"}
    /\ fenced \in BOOLEAN /\ registered \in BOOLEAN /\ ending \in BOOLEAN
    /\ forced \in BOOLEAN /\ retry \in BOOLEAN
    /\ cmd \in [Operations -> {"idle", "asked", "preparing", "queued", "doomed", "running", "done"}]
    /\ ToSet(queue) = {c \in Operations : cmd[c] \notin {"idle", "done"}}
    /\ Len(queue) = Cardinality(ToSet(queue))
    /\ trans \in [by : Enders \cup {Nobody}, stage : {"none", "drain", "clean"}, again : BOOLEAN]
    /\ verdict \in [Enders -> {"idle", "tail", "wait", "release", "closed", "pending", "error"}]
    /\ family \in {"none", "kept", "dropped", "proven"}
    /\ tabs \in {"none", "open", "closed"}
    /\ release \in [on : BOOLEAN, had : BOOLEAN, hook : BOOLEAN]
    /\ expiry \in {"idle", "release", "done", "failed"}
    /\ browser \in {"up", "lost", "replaced"}

SessionInit ==
    /\ link = "up" /\ opening = "creating" /\ aborted = {}
    /\ actor = "none" /\ fenced = FALSE
    /\ cmd = [c \in Operations |-> "idle"] /\ queue = <<>>
    /\ registered = FALSE /\ ending = FALSE /\ forced = FALSE
    /\ trans = NoTrans /\ retry = FALSE
    /\ verdict = [x \in Enders |-> "idle"]
    /\ family = "none" /\ tabs = "none" /\ release = NoRelease
    /\ expiry = "idle" /\ browser = "up"

(* custody.release: join the release under way, or begin one.               *)
AsksRelease(hook) ==
    release' = IF release.on THEN [release EXCEPT !.hook = @ \/ hook]
               ELSE [on |-> TRUE, had |-> family = "kept", hook |-> hook]

-----------------------------------------------------------------------------
(* Mutated forms, named Operator_Fault, precede the operator they distort;
   nothing refers to them but the mutation runs of PROJECT.json. *)

(* Starting.  The handler registers its session before the page loads, and  *)
(* the port is named after one more await.                                  *)
StartMade ==
    /\ opening = "creating" /\ browser = "up"
    /\ opening' = "made"
    /\ registered' = TRUE /\ family' = "kept" /\ tabs' = "open"
    /\ UNCHANGED <<link, aborted, actor, fenced, commandVars, closeVars, verdict, release, expiry, browser>>

StartRefused ==
    /\ opening = "creating"
    /\ opening' = "failed"
    /\ UNCHANGED <<link, aborted, actor, fenced, commandVars, registered, closeVars, verdict,
                   tabVars, expiry>>

StartFails ==
    /\ opening = "made"
    /\ opening' = "cleaning"
    /\ registered' = FALSE
    /\ AsksRelease(FALSE)
    /\ UNCHANGED <<link, aborted, actor, fenced, commandVars, closeVars, verdict, family, tabs, expiry, browser>>

StartObserved ==
    /\ opening = "made"
    /\ IF TheStart \in aborted
       THEN opening' = "cleaning" /\ AsksRelease(FALSE)
       ELSE opening' = "naming" /\ UNCHANGED release
    /\ UNCHANGED <<link, aborted, actor, fenced, commandVars, registered, closeVars, verdict,
                   family, tabs, expiry, browser>>

StartNamed ==
    /\ opening = "naming"
    /\ opening' = IF TheStart \in aborted THEN "failed" ELSE "ready"
    /\ actor' = "live"
    /\ fenced' = (TheStart \in aborted)
    /\ verdict' = IF TheStart \in aborted THEN [verdict EXCEPT ![Drop] = "tail"] ELSE verdict
    /\ UNCHANGED <<link, aborted, commandVars, registered, closeVars, tabVars, expiry>>

-----------------------------------------------------------------------------
(* BrokerAuthority.invoke.                                                  *)
Becomes(c, s) == cmd' = [cmd EXCEPT ![c] = s]
(* The command that settles is the one whose turn it is.                    *)
CommandSettles(c) == Becomes(c, "done") /\ queue' = Tail(queue)
Cancelled(c) == fenced \/ c \in aborted

InvokeCommand(c) ==
    /\ link = "up" /\ opening = "ready" /\ actor = "live" /\ cmd[c] = "idle"
    /\ Becomes(c, IF c \in Logins THEN "asked" ELSE "queued")
    /\ queue' = Append(queue, c)
    /\ UNCHANGED <<link, actorVars, registered, closeVars, verdict, tabVars, expiry>>

(* A call lease is refused while the session closes, and while a cancelled  *)
(* call still holds one.                                                    *)
Leasable == registered /\ ~ending /\ CallLeases \cap aborted = {}

PrepareCommand(c) ==
    /\ cmd[c] = "asked"
    /\ Becomes(c, IF ~Cancelled(c) /\ Leasable THEN "preparing" ELSE "doomed")
    /\ UNCHANGED <<link, actorVars, queue, registered, closeVars, verdict, tabVars, expiry>>

CommandPrepared(c) ==
    /\ cmd[c] = "preparing"
    /\ \E s \in {"queued", "doomed"} : Becomes(c, s)
    /\ UNCHANGED <<link, actorVars, queue, registered, closeVars, verdict, tabVars, expiry>>

OnTurn(c) == cmd[c] \in {"queued", "doomed"} /\ Head(queue) = c

TurnComes(c) ==
    /\ OnTurn(c)
    /\ IF cmd[c] = "queued" /\ ~Cancelled(c) /\ browser = "up" /\ Leasable
       THEN Becomes(c, "running") /\ UNCHANGED queue
       ELSE CommandSettles(c)
    /\ UNCHANGED <<link, actorVars, registered, closeVars, verdict, tabVars, expiry>>

Return(c) ==
    /\ cmd[c] = "running"
    /\ CommandSettles(c)
    /\ UNCHANGED <<link, actorVars, registered, closeVars, verdict, tabVars, expiry>>

Abort(x) ==
    /\ link = "up" /\ x \notin aborted
    /\ IF x = TheStart THEN opening \in {"creating", "made", "naming"} ELSE cmd[x] \notin {"idle", "done"}
    /\ aborted' = aborted \cup {x}
    /\ UNCHANGED <<link, opening, actor, fenced, commandVars, registered, closeVars, verdict, tabVars, expiry>>

-----------------------------------------------------------------------------
(* finishProvisionSessionWithPreparation: the first caller drains the call  *)
(* leases and cleans up, a later one retries a failed cleanup or is told    *)
(* that closing is pending.                                                 *)
Enters(x) ==
    IF ~ending
    THEN /\ ending' = TRUE /\ forced' = FALSE
         /\ trans' = [by |-> x, stage |-> "drain", again |-> FALSE]
         /\ verdict' = [verdict EXCEPT ![x] = "wait"]
         /\ UNCHANGED <<retry, release>>
    ELSE IF retry
    THEN /\ retry' = FALSE
         /\ trans' = [by |-> x, stage |-> "clean", again |-> TRUE]
         /\ AsksRelease(TRUE)
         /\ verdict' = [verdict EXCEPT ![x] = "wait"]
         /\ UNCHANGED <<ending, forced>>
    ELSE /\ verdict' = [verdict EXCEPT ![x] = "pending"]
         /\ UNCHANGED <<closeVars, release>>

(* BrokerAuthority.finish fences the session before the port looks whether  *)
(* its Chrome still answers.                                                *)
FinishSession(x) ==
    /\ link = "up" /\ opening = "ready" /\ actor = "live" /\ verdict[x] = "idle"
    /\ fenced' = TRUE
    /\ IF browser = "up" /\ registered THEN Enters(x)
       ELSE /\ verdict' = [verdict EXCEPT ![x] = "error"]
            /\ UNCHANGED <<closeVars, release>>
    /\ UNCHANGED <<link, opening, aborted, actor, commandVars, registered, family, tabs, expiry, browser>>

LeasesDrained_AfterQueue == trans.stage = "drain" /\ \A c \in Operations : cmd[c] # "running"

LeasesDrained == trans.stage = "drain" /\ CallLeases = {}

Clean ==
    /\ LeasesDrained
    /\ IF forced \/ ~registered
       THEN /\ trans' = NoTrans
            /\ verdict' = [verdict EXCEPT ![trans.by] = IF @ = "wait" THEN "error" ELSE @]
            /\ UNCHANGED release
       ELSE /\ trans' = [trans EXCEPT !.stage = "clean"]
            /\ AsksRelease(TRUE)
            /\ UNCHANGED verdict
    /\ UNCHANGED <<link, actorVars, commandVars, registered, ending, forced,
                   retry, family, tabs, expiry, browser>>

(* The 4 s answer: the caller is told that closing is pending.              *)
AnswerPending(x) ==
    /\ SlowClose /\ verdict[x] = "wait"
    /\ verdict' = [verdict EXCEPT ![x] = "pending"]
    /\ UNCHANGED <<link, actorVars, commandVars, registered, closeVars, tabVars, expiry>>

(* releaseOnce settles, and everyone who awaits it goes on: the transition, *)
(* the closer of a session already gone, the expiry and a failed start.     *)
Proves == release.had \/ ~release.hook \/ family = "proven"
Told(x, ok) ==
    CASE verdict[x] = "wait" /\ trans.by = x /\ trans.stage = "clean" ->
             IF ok THEN "closed" ELSE IF trans.again THEN "pending" ELSE "error"
      [] verdict[x] = "release" -> IF ok THEN "closed" ELSE "error"
      [] OTHER -> verdict[x]

Retires(ok) ==
    ok /\ \/ trans.stage = "clean" /\ trans.by \in Finishes
          \/ \E x \in Enders : verdict[x] # "closed" /\ Told(x, ok) = "closed"
          \/ expiry = "release"

TabsReleased ==
    /\ release.on
    /\ release' = NoRelease
    /\ tabs' = IF release.had THEN "closed" ELSE tabs
    /\ family' = IF release.had THEN "proven" ELSE family
    /\ verdict' = [x \in Enders |-> Told(x, Proves)]
    /\ registered' = (registered /\ ~(Proves /\ trans.stage = "clean"))
    /\ retry' = (retry \/ (~Proves /\ trans.stage = "clean"))
    /\ trans' = IF trans.stage = "clean" THEN NoTrans ELSE trans
    /\ actor' = IF Retires(Proves) THEN "gone" ELSE actor
    /\ expiry' = IF expiry = "release" THEN (IF Proves THEN "done" ELSE "failed") ELSE expiry
    /\ opening' = IF opening = "cleaning" THEN "failed" ELSE opening
    /\ UNCHANGED <<link, aborted, fenced, commandVars, ending, forced, browser>>

-----------------------------------------------------------------------------
(* The connection drops: its requests and its start are aborted at once,    *)
(* and the session it has once a grace is over is closed.                   *)
Disconnect ==
    /\ link = "up"
    /\ link' = "dropped"
    /\ aborted' = aborted \cup ToSet(queue)
                  \cup (IF opening \in {"creating", "made", "naming"} THEN {TheStart} ELSE {})
    /\ UNCHANGED <<opening, actor, fenced, commandVars, registered, closeVars, verdict, tabVars, expiry>>

CloseActor ==
    /\ link = "dropped"
    /\ link' = "closed"
    /\ IF actor = "live" /\ verdict[Drop] = "idle"
       THEN fenced' = TRUE /\ verdict' = [verdict EXCEPT ![Drop] = "tail"]
       ELSE UNCHANGED <<fenced, verdict>>
    /\ UNCHANGED <<opening, aborted, actor, commandVars, registered, closeVars, tabVars, expiry>>

CloseSession ==
    /\ verdict[Drop] = "tail" /\ queue = <<>>
    /\ IF registered THEN Enters(Drop)
       ELSE /\ verdict' = [verdict EXCEPT ![Drop] = "release"]
            /\ AsksRelease(FALSE)
            /\ UNCHANGED closeVars
    /\ UNCHANGED <<link, actorVars, commandVars, registered, family, tabs, expiry, browser>>

(* BrokerAuthority.shutdown: expiry waits for no command.                   *)
Shutdown ==
    /\ actor = "live" /\ expiry \in {"idle", "failed"}
    /\ fenced' = TRUE
    /\ aborted' = aborted \cup ToSet(queue)
    /\ forced' = (forced \/ registered)
    /\ ending' = (ending \/ registered)
    /\ registered' = FALSE
    /\ expiry' = "release"
    /\ AsksRelease(FALSE)
    /\ UNCHANGED <<link, opening, actor, commandVars, trans, retry, verdict, family, tabs, browser>>

(* Chrome dies; the next start drops every tab family of the dead one.      *)
Lose ==
    /\ MayLose /\ browser = "up" /\ opening = "ready"
    /\ browser' = "lost"
    /\ tabs' = IF tabs = "open" THEN "closed" ELSE tabs
    /\ UNCHANGED <<link, actorVars, commandVars, registered, closeVars, verdict,
                   family, release, expiry>>

Replace ==
    /\ browser = "lost" /\ ~release.on
    /\ browser' = "replaced"
    /\ family' = IF family = "kept" THEN "dropped" ELSE family
    /\ UNCHANGED <<link, actorVars, commandVars, registered, closeVars, verdict,
                   tabs, release, expiry>>

SessionStarts == StartMade \/ StartRefused \/ StartFails \/ StartObserved \/ StartNamed
Working(c) == PrepareCommand(c) \/ CommandPrepared(c) \/ TurnComes(c) \/ Return(c)
SessionCloses == Clean \/ TabsReleased \/ CloseActor \/ CloseSession

SessionNext ==
    \/ SessionStarts \/ SessionCloses \/ Disconnect \/ Shutdown \/ Lose \/ Replace
    \/ \E c \in Operations : InvokeCommand(c) \/ Working(c)
    \/ \E x \in Operations \cup {TheStart} : Abort(x)
    \/ \E x \in Finishes : FinishSession(x)
    \/ \E x \in Enders : AnswerPending(x)

SessionSpec == SessionInit /\ [][SessionNext]_sessionVars

(* Starts and commands observe their abort signal, timers fire and page     *)
(* closes are bounded by a second each.                                     *)
SessionLiveSpec ==
    /\ SessionSpec
    /\ WF_sessionVars(SessionStarts) /\ WF_sessionVars(Clean) /\ WF_sessionVars(TabsReleased)
    /\ WF_sessionVars(CloseActor) /\ WF_sessionVars(CloseSession)
    /\ \A c \in Operations : WF_sessionVars(Working(c))

-----------------------------------------------------------------------------
(* Commands of a session run one at a time, in the order they arrived: the  *)
(* one that runs is at the head of the queue.                               *)
OneAtATime == \A c \in Operations : cmd[c] = "running" => queue # <<>> /\ Head(queue) = c

(* No page is closed under a command that still holds the session, unless   *)
(* the shutdown forces it; a start that fails has no command yet.           *)
TabsCloseIdle == release.on /\ ~forced => CallLeases = {}

(* Whoever is told that a session is closed finds its pages closed and the  *)
(* session in no table that would serve it.                                 *)
ToldIsClosed == \A x \in Enders :
    verdict[x] = "closed" => tabs # "open" /\ ~registered /\ actor # "live"

(* browser-broker.md: a dropped connection's sessions close.                *)
Over == opening \notin {"creating", "made", "naming", "cleaning"} /\ actor # "live" /\ tabs # "open"
DroppedSessionsClose == link # "up" ~> Over

(* Every command is answered, fenced ones and those of a dropped connection *)
(* included.                                                                *)
CommandsSettle == \A c \in Operations : cmd[c] # "idle" ~> cmd[c] = "done"

(* authority.ts on retire: terminal cleanup removed the session, so its     *)
(* broker bookkeeping goes too.                                             *)
CleanedIsRetired == (opening = "ready" /\ ~registered) ~> actor # "live"

(* authority.ts on open: an aborted start is not adopted by a session       *)
(* nobody is waiting for.                                                   *)
NothingAdopted == opening = "failed" /\ actor = "none" => ~registered
=============================================================================
