---------------------------- MODULE BrokerForward ----------------------------
(***************************************************************************)
(* The operator calls of one MCP process, from OperatorForwarder.invoke to *)
(* the frames they send the broker: the one connection they share, its     *)
(* loss and replacement, the session ids the process remembers, walls that *)
(* are answered locally, and the cancellation of one call.                 *)
(*                                                                         *)
(* A session is named by the call that opened it.  JavaScript runs a       *)
(* handler to its next await, so an action is one such stretch.            *)
(***************************************************************************)
EXTENDS Naturals, FiniteSets, FiniteSetsExt

CONSTANTS
    Starts,        \* operate_start calls
    Drives,        \* operate_drive calls that name a url: they open, then command
    Commands,      \* calls on a session
    Closes,        \* operate_finish calls
    MaxConns       \* bound: connections the process may make; the last one holds

Invocations == Starts \cup Drives \cup Commands \cup Closes
Openers == Starts \cup Drives
Conns == 1..MaxConns

ForwardAssumption ==
    /\ MaxConns \in Nat \ {0}
    /\ \A k, l \in {Starts, Drives, Commands, Closes} : k # l => k \cap l = {}

VARIABLES
    conn,        \* this.connection, 0 when undefined
    wire,        \* each connection
    known,       \* this.sessions
    walls,       \* this.refusedStarts
    pc,          \* where each call waits
    old,         \* the connection a call found
    mine,        \* the one it uses
    fresh,       \* its reconnecting
    names,       \* the session it names
    cancelled,   \* calls whose signal is aborted
    heldBy,      \* in the broker: the connection of each open session
    ran,         \* how often the broker did what each call asks
    told         \* what the caller of each call was told

forwardVars == <<conn, wire, known, walls, pc, old, mine, fresh, names, cancelled, heldBy, ran, told>>
process == <<conn, known, walls>>
locals == <<old, mine, fresh, names>>
broker == <<heldBy, ran>>

NoSession == "no session"
Unsent == {"existing", "connecting", "account"}
Sent == {"open sent", "command sent"}
Replied == {"opened", "answered", "refused"}

ForwardTypeOK ==
    /\ conn \in 0..MaxConns
    /\ wire \in [Conns -> {"none", "opening", "up", "down", "failed"}]
    /\ known \subseteq Openers /\ walls \subseteq Openers
    /\ pc \in [Invocations -> {"idle", "walled", "done"} \cup Unsent \cup Sent \cup Replied]
    /\ old \in [Invocations -> 0..MaxConns] /\ mine \in [Invocations -> 0..MaxConns]
    /\ fresh \in [Invocations -> BOOLEAN]
    /\ names \in [Invocations -> Openers \cup {NoSession}]
    /\ cancelled \subseteq Invocations
    /\ heldBy \in [Openers -> 0..MaxConns]
    /\ ran \in [Invocations -> 0..2]
    /\ told \in [Invocations -> {"nothing", "result", "wall", "stale_lease", "cancelled", "broker_lost", "unavailable"}]

ForwardInit ==
    /\ conn = 0 /\ wire = [n \in Conns |-> "none"]
    /\ known = {} /\ walls = {}
    /\ pc = [c \in Invocations |-> "idle"]
    /\ old = [c \in Invocations |-> 0] /\ mine = [c \in Invocations |-> 0]
    /\ fresh = [c \in Invocations |-> FALSE]
    /\ names = [c \in Invocations |-> NoSession]
    /\ cancelled = {}
    /\ heldBy = [s \in Openers |-> 0] /\ ran = [c \in Invocations |-> 0]
    /\ told = [c \in Invocations |-> "nothing"]

Awaits(c, where) == pc' = [pc EXCEPT ![c] = where] /\ UNCHANGED told
Ends(c, answer) == pc' = [pc EXCEPT ![c] = "done"] /\ told' = [told EXCEPT ![c] = answer]

-----------------------------------------------------------------------------
(* Mutated forms, named Operator_Fault, precede the operator they distort;
   nothing refers to them but the mutation runs of PROJECT.json. *)

(* connect: the connection there is, or a new one.                          *)
Unused == {n \in Conns : wire[n] = "none"}
Connects(c, current) ==
    IF current # 0
    THEN /\ mine' = [mine EXCEPT ![c] = current]
         /\ UNCHANGED <<conn, wire>>
    ELSE /\ Unused # {}
         /\ LET n == Min(Unused) IN
            /\ conn' = n
            /\ wire' = [wire EXCEPT ![n] = "opening"]
            /\ mine' = [mine EXCEPT ![c] = n]

(* A follow-up on a start that was refused is answered here.                *)
ReplayWall(c) ==
    /\ pc[c] = "walled"
    /\ walls' = IF c \in Closes THEN walls \ {names[c]} ELSE walls
    /\ Ends(c, IF c \in Closes THEN "result" ELSE "wall")
    /\ UNCHANGED <<conn, wire, known, locals, cancelled, broker>>

Invoke(c) ==
    /\ pc[c] = "idle"
    /\ \E s \in {NoSession} \cup {o \in Openers : told[o] \in {"result", "wall"}} :
        /\ c \in Openers => s = NoSession
        /\ names' = [names EXCEPT ![c] = s]
        /\ IF c \notin Openers /\ s \in walls
           THEN Awaits(c, "walled") /\ UNCHANGED <<process, wire, old, mine>>
           ELSE IF conn # 0
           THEN Awaits(c, "existing") /\ old' = [old EXCEPT ![c] = conn] /\ UNCHANGED <<process, wire, mine>>
           ELSE Awaits(c, "connecting") /\ Connects(c, conn) /\ UNCHANGED <<known, walls, old>>
    /\ UNCHANGED <<fresh, cancelled, broker>>

(* The connection found is awaited, and replaced when it is dead.  The call  *)
(* that made it awaited it first and goes on first.                          *)
Maker(n) == {d \in Invocations : pc[d] = "connecting" /\ fresh[d] /\ mine[d] = n}
Existing(c) ==
    /\ pc[c] = "existing" /\ wire[old[c]] # "opening" /\ Maker(old[c]) = {}
    /\ fresh' = [fresh EXCEPT ![c] = wire[old[c]] # "up"]
    /\ Awaits(c, "connecting")
    /\ Connects(c, IF wire[old[c]] = "up" THEN conn ELSE 0)
    /\ UNCHANGED <<known, walls, old, names, cancelled, broker>>

Connected(c) ==
    /\ pc[c] = "connecting" /\ wire[mine[c]] # "opening"
    /\ IF wire[mine[c]] = "failed"
       THEN Ends(c, "unavailable") /\ UNCHANGED known
       ELSE /\ Awaits(c, "account")
            /\ known' = IF fresh[c] THEN {} ELSE known
    /\ UNCHANGED <<conn, wire, walls, locals, cancelled, broker>>

(* The session a call is for: the one it names, or the only one there is.   *)
Target(c) ==
    IF names[c] = NoSession /\ Cardinality(known) = 1 THEN CHOOSE s \in known : TRUE
    ELSE names[c]

Sends(c, what) == IF wire[mine[c]] = "up" THEN Awaits(c, what) ELSE Ends(c, "broker_lost")

Dispatch(c) ==
    /\ pc[c] = "account"
    /\ IF c \in Openers
       THEN Sends(c, "open sent") /\ UNCHANGED names
       ELSE IF Target(c) \in known
       THEN Sends(c, "command sent") /\ names' = [names EXCEPT ![c] = Target(c)]
       ELSE Ends(c, "stale_lease") /\ UNCHANGED names
    /\ UNCHANGED <<process, wire, old, mine, fresh, cancelled, broker>>

(* Cancelling: a call that prepares is rejected; one that was sent is       *)
(* aborted by its frame id, if the broker has not answered it.              *)
Cancel_OnlySent(c) ==
    /\ pc[c] \in Unsent \cup Sent \cup Replied /\ c \notin cancelled
    /\ cancelled' = cancelled \cup {c}
    /\ UNCHANGED <<process, wire, locals, broker, pc, told>>

Cancel(c) ==
    /\ pc[c] \in Unsent \cup Sent \cup Replied /\ c \notin cancelled
    /\ cancelled' = cancelled \cup {c}
    /\ IF pc[c] \in Unsent THEN Ends(c, "cancelled") ELSE UNCHANGED <<pc, told>>
    /\ UNCHANGED <<process, wire, locals, broker>>

-----------------------------------------------------------------------------
(* The broker's side.  A dropped connection rejects what is pending on it;  *)
(* its sessions end with its lease.                                         *)
Handshake(n) ==
    /\ wire[n] = "opening"
    /\ \E s \in {"up"} \cup (IF n < MaxConns THEN {"failed"} ELSE {}) : wire' = [wire EXCEPT ![n] = s]
    /\ UNCHANGED <<process, pc, locals, cancelled, broker, told>>

Unanswered(n, lost) ==
    LET on == {c \in Invocations : mine[c] = n} IN
    /\ lost \subseteq {c \in on : pc[c] \in Sent \cup Replied}
    /\ {c \in on : pc[c] \in Sent} \subseteq lost

Drops_KeepsPending(n) ==
    /\ wire[n] = "up" /\ n < MaxConns
    /\ wire' = [wire EXCEPT ![n] = "down"]
    /\ UNCHANGED <<process, pc, locals, cancelled, broker, told>>

Drops(n) ==
    /\ wire[n] = "up" /\ n < MaxConns
    /\ wire' = [wire EXCEPT ![n] = "down"]
    /\ \E lost \in SUBSET Invocations :
        /\ Unanswered(n, lost)
        /\ pc' = [c \in Invocations |-> IF c \in lost THEN "done" ELSE pc[c]]
        /\ told' = [c \in Invocations |-> IF c \in lost THEN "broker_lost" ELSE told[c]]
    /\ UNCHANGED <<process, locals, cancelled, broker>>

LeaseEnds(n) ==
    /\ wire[n] = "down" /\ \E s \in Openers : heldBy[s] = n
    /\ heldBy' = [s \in Openers |-> IF heldBy[s] = n THEN 0 ELSE heldBy[s]]
    /\ UNCHANGED <<process, wire, pc, locals, cancelled, ran, told>>

Serves(c, at) == pc[c] \in at /\ wire[mine[c]] = "up"

Open(c) ==
    /\ Serves(c, {"open sent"})
    /\ \/ /\ Awaits(c, "opened")
          /\ heldBy' = [heldBy EXCEPT ![c] = mine[c]]
          /\ ran' = [ran EXCEPT ![c] = @ + 1]
       \/ Awaits(c, "refused") /\ UNCHANGED broker
    /\ UNCHANGED <<process, wire, locals, cancelled>>

(* A session of another connection is refused.                              *)
Runs(c) ==
    /\ Serves(c, {"command sent"})
    /\ IF heldBy[names[c]] = mine[c]
       THEN /\ Awaits(c, "answered")
            /\ ran' = [ran EXCEPT ![c] = @ + 1]
            /\ heldBy' = IF c \in Closes THEN [heldBy EXCEPT ![names[c]] = 0] ELSE heldBy
       ELSE Ends(c, "stale_lease") /\ UNCHANGED broker
    /\ UNCHANGED <<process, wire, locals, cancelled>>

Aborted(c) ==
    /\ Serves(c, IF c \in Closes THEN {} ELSE Sent)
    /\ c \in cancelled
    /\ Ends(c, "cancelled")
    /\ UNCHANGED <<process, wire, locals, cancelled, broker>>

-----------------------------------------------------------------------------
(* Replies.  A drive goes on to its command in the same stretch; a reply    *)
(* that waits for the notifications before it may outlive its connection.   *)
Opened(c) ==
    /\ pc[c] = "opened"
    /\ known' = known \cup {c}
    /\ IF c \in Starts
       THEN Ends(c, "result") /\ UNCHANGED names
       ELSE Sends(c, "command sent") /\ names' = [names EXCEPT ![c] = c]
    /\ UNCHANGED <<conn, wire, walls, old, mine, fresh, cancelled, broker>>

Declined(c) ==
    /\ pc[c] = "refused"
    /\ walls' = walls \cup {c}
    /\ Ends(c, "wall")
    /\ UNCHANGED <<conn, wire, known, locals, cancelled, broker>>

Answered(c) ==
    /\ pc[c] = "answered"
    /\ known' = IF c \in Closes THEN known \ {names[c]} ELSE known
    /\ Ends(c, "result")
    /\ UNCHANGED <<conn, wire, walls, locals, cancelled, broker>>

CallRuns(c) ==
    \/ Invoke(c) \/ ReplayWall(c) \/ Existing(c) \/ Connected(c) \/ Dispatch(c)
    \/ Opened(c) \/ Declined(c) \/ Answered(c)
Serviced(c) == Open(c) \/ Runs(c) \/ Aborted(c)

ForwardNext ==
    \/ \E c \in Invocations : CallRuns(c) \/ Cancel(c) \/ Serviced(c)
    \/ \E n \in Conns : Handshake(n) \/ Drops(n) \/ LeaseEnds(n)
ForwardSpec == ForwardInit /\ [][ForwardNext]_forwardVars

(* Awaited promises settle, and the broker answers or drops the connection. *)
ForwardLiveSpec ==
    /\ ForwardSpec
    /\ \A c \in Invocations : WF_forwardVars(ReplayWall(c) \/ Existing(c) \/ Connected(c) \/ Dispatch(c)
                                \/ Opened(c) \/ Declined(c) \/ Answered(c))
    /\ \A c \in Invocations : WF_forwardVars(Serviced(c))
    /\ \A n \in Conns : WF_forwardVars(Handshake(n)) /\ WF_forwardVars(LeaseEnds(n))
-----------------------------------------------------------------------------
(* A request is never replayed: what a call asks is done once at most,      *)
(* whatever became of its connection (a drive asks for two things).         *)
NeverReplayed == \A c \in Invocations : ran[c] <= IF c \in Drives THEN 2 ELSE 1

(* A cancelled call sends nothing any more: what the cancellation promises,  *)
(* and false of a drive, which does not look at its signal between its two   *)
(* requests.  What the code keeps: nothing else is sent.                     *)
CancelledIsNotSent ==
    [][\A c \in cancelled : pc'[c] \in Sent => pc'[c] = pc[c]]_forwardVars
OnlyDrivesGoOn ==
    [][\A c \in cancelled :
        pc'[c] \in Sent => pc'[c] = pc[c] \/ (c \in Drives /\ pc[c] = "opened")]_forwardVars

(* Two calls found the same connection dead and each replaced it.            *)
Raced == \E c, d \in Invocations : c # d /\ fresh[c] /\ fresh[d] /\ old[c] = old[d]

(* A process has one connection: false once two calls have raced.            *)
OneConnection == Cardinality({n \in Conns : wire[n] \in {"opening", "up"}}) <= 1

(* A session whose caller knows it, and whose connection is there, is one   *)
(* this process can still command and finish.                               *)
KnownIsReachable ==
    \A s \in Openers : (told[s] = "result" /\ heldBy[s] # 0 /\ wire[heldBy[s]] = "up") =>
        s \in known /\ heldBy[s] = conn

(* A session nobody has been told of is one the process still holds for a   *)
(* call to find, or goes with its connection: a lost reply strands nothing. *)
LostRepliesEnd == \A s \in Openers : (told[s] = "broker_lost") ~> (heldBy[s] = 0)

(* stale_lease never stands in for a session that was never created.        *)
StaleMeansCreated ==
    \A c \in Invocations : (told[c] = "stale_lease" /\ names[c] # NoSession) => told[names[c]] # "wall"

(* Every call is answered, whatever is lost or cancelled on its way.        *)
CallsSettle == \A c \in Invocations : (pc[c] # "idle") ~> (pc[c] = "done")

(* What a call asks is never done twice and nothing cancelled before its     *)
(* turn is sent; and whatever calls run together, until two of them replace  *)
(* the same connection the process has one, on which it reaches every        *)
(* session its callers were told of.                                         *)
ForwardSafe ==
    /\ [](ForwardTypeOK /\ NeverReplayed /\ (~Raced => OneConnection /\ KnownIsReachable))
    /\ OnlyDrivesGoOn
=============================================================================
