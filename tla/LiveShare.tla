------------------------------ MODULE LiveShare ------------------------------
(***************************************************************************)
(* The live share of an operator session (bot/live-share.ts): viewers see  *)
(* the page and drive it, and the agent's commands wait while one of them  *)
(* has control.  An agent command is one turn; operate_drive gives its     *)
(* turn up between steps.  The inputs of a share and the departures of its *)
(* viewers are one chain of promises, tail; replies to a native dialog go  *)
(* around it.  operate_share renews or replaces the share, operate_finish  *)
(* ends it.  Commands of one session do not overlap (BrokerSessions).      *)
(***************************************************************************)
EXTENDS Integers, Sequences, FiniteSets, SequencesExt

CONSTANTS
    Viewers,       \* WebSockets that may be opened on a share
    Tabs,          \* pages of the session
    MaxShares,     \* shares made for the session
    MaxInputs,     \* inputs sent
    MaxCommands,   \* agent commands
    MaxMoves,      \* page switches and native dialogs
    MayFail        \* whether the preparation of operate_finish may fail: that of
                   \* no caller in the code does

ShareAssumption ==
    /\ {MaxShares, MaxInputs, MaxCommands, MaxMoves} \subseteq Nat
    /\ "none" \notin Viewers \cup Tabs /\ IsFiniteSet(Viewers) /\ Tabs # {}
    /\ MayFail \in BOOLEAN

VARIABLES
    share,     \* each LiveShare; live once operate_share has made it
    current,   \* shares.get(session), 0 for none
    seat,      \* the share each viewer is connected to, -1 once it left
    tunnel,    \* gateway.tunnel.alive()
    agent,     \* the agent's command
    finish,    \* operate_finish
    shut,      \* session.closing
    page,      \* session.browser.page
    dialog,    \* the native dialog of the page
    reply,     \* the reply each viewer gives to it
    inputs, commands, moves  \* counted against their bounds

shareVars == <<share, current, seat, tunnel, agent, finish, shut, page, dialog, reply,
               inputs, commands, moves>>
browserVars == <<page, dialog>>
endVars == <<finish, shut>>
counters == <<inputs, commands, moves>>

Shares == 1..MaxShares
Items == [by : Viewers, does : {"input", "release"}]

ShareTypeOK ==
    /\ share \in [Shares -> [live : BOOLEAN, expired : BOOLEAN, published : BOOLEAN,
           owner : Viewers \cup {"none"}, wanted : BOOLEAN, driving : BOOLEAN, active : 0..1,
           tail : Seq(Items), head : {"queued", "waiting", "sending"},
           page : Tabs \cup {"none"}, cdp : Tabs \cup {"none"}, opens : Tabs \cup {"none"}]]
    /\ current \in 0..MaxShares
    /\ seat \in [Viewers -> -1..MaxShares]
    /\ tunnel \in BOOLEAN /\ shut \in BOOLEAN
    /\ agent.does \in {"none", "act", "drive", "share"} /\ agent.turn \in 0..MaxShares
    /\ agent.at \in {"idle", "waits", "acting", "yielded", "unwinding", "settling", "starting"}
    /\ finish \in {"idle", "draining", "preparing", "done"}
    /\ page \in Tabs /\ dialog \in {"none", "open", "answering"}
    /\ reply \in [Viewers -> {"none", "waiting", "control", "answering"}]
    /\ inputs \in 0..MaxInputs /\ commands \in 0..MaxCommands /\ moves \in 0..MaxMoves

NoCommand == [does |-> "none", at |-> "idle", turn |-> 0]

ShareInit ==
    /\ share = [s \in Shares |-> [live |-> FALSE, expired |-> FALSE, published |-> FALSE,
                  owner |-> "none", wanted |-> FALSE, driving |-> FALSE, active |-> 0,
                  tail |-> <<>>, head |-> "queued", page |-> "none", cdp |-> "none", opens |-> "none"]]
    /\ current = 0 /\ seat = [v \in Viewers |-> 0] /\ tunnel = TRUE
    /\ agent = NoCommand /\ finish = "idle" /\ shut = FALSE
    /\ page \in Tabs /\ dialog = "none" /\ reply = [v \in Viewers |-> "none"]
    /\ inputs = 0 /\ commands = 0 /\ moves = 0

-----------------------------------------------------------------------------
(* Mutated forms, named Operator_Fault, precede the operator they distort;
   nothing refers to them but the mutation runs of PROJECT.json. *)

ViewersOf(s, at) == {v \in Viewers : at[v] = s}
Head1(s) == share[s].tail[1]
Sets(s, sh) == share' = [share EXCEPT ![s] = sh]
(* The item at the head of the chain is done.                               *)
Pops(sh) == [sh EXCEPT !.tail = Tail(@), !.head = "queued"]
Leases == {v \in Viewers : reply[v] = "answering"} \cup (IF agent.at = "idle" THEN {} ELSE {"agent"})

(* startStream begins for the page the share shows, unless one is starting. *)
Streams(sh) == IF sh.opens = "none" /\ sh.page = page THEN [sh EXCEPT !.opens = page] ELSE sh

(* refreshPage follows the session to another page.                         *)
Refresh(sh, viewed) ==
    IF sh.expired THEN sh
    ELSE IF page # sh.page THEN
            LET moved == [sh EXCEPT !.page = page, !.cdp = "none"]
            IN IF viewed THEN Streams(moved) ELSE moved
    ELSE IF viewed /\ sh.cdp = "none" THEN Streams(sh) ELSE sh

(* stop: what every viewer of the share had is released, in the chain.      *)
Stopped(s) ==
    IF share[s].expired THEN share[s]
    ELSE [share[s] EXCEPT !.expired = TRUE,
             !.cdp = IF ViewersOf(s, seat) = {} THEN "none" ELSE @,
             !.tail = @ \o SetToSeq({[by |-> v, does |-> "release"] : v \in ViewersOf(s, seat)})]
Unseated(s) == [v \in Viewers |-> IF seat[v] = s /\ ~share[s].expired THEN -1 ELSE seat[v]]

-----------------------------------------------------------------------------
(* Viewers.                                                                 *)
ConnectViewer(v) ==
    /\ seat[v] = 0 /\ current # 0 /\ tunnel
    /\ share[current].published /\ ~share[current].expired /\ ~shut
    /\ seat' = [seat EXCEPT ![v] = current]
    /\ Sets(current, IF share[current].cdp = "none" THEN Streams(share[current]) ELSE share[current])
    /\ UNCHANGED <<current, tunnel, agent, endVars, browserVars, reply, counters>>

Send(v) ==
    /\ seat[v] > 0 /\ inputs < MaxInputs
    /\ inputs' = inputs + 1
    /\ Sets(seat[v], [share[seat[v]] EXCEPT !.tail = Append(@, [by |-> v, does |-> "input"])])
    /\ UNCHANGED <<current, seat, tunnel, agent, endVars, browserVars, reply, commands, moves>>

(* release: the departure waits for the inputs sent before it.              *)
Leave(v) ==
    /\ seat[v] > 0
    /\ seat' = [seat EXCEPT ![v] = -1]
    /\ Sets(seat[v], [share[seat[v]] EXCEPT !.tail = Append(@, [by |-> v, does |-> "release"])])
    /\ UNCHANGED <<current, tunnel, agent, endVars, browserVars, reply, counters>>

Poll(s) ==
    /\ share[s].live
    /\ Sets(s, Refresh(share[s], ViewersOf(s, seat) # {}))
    /\ UNCHANGED <<current, seat, tunnel, agent, endVars, browserVars, reply, counters>>

(* newCDPSession returned: its stream is of the page it was opened for, if  *)
(* that is still the one shown.                                             *)
StreamOpens(s) ==
    LET p == share[s].opens
        shown == /\ ViewersOf(s, seat) # {} /\ ~share[s].expired
                 /\ p = share[s].page /\ p = page
    IN /\ p # "none"
       /\ Sets(s, [share[s] EXCEPT !.opens = "none", !.cdp = IF shown THEN p ELSE @])
       /\ UNCHANGED <<current, seat, tunnel, agent, endVars, browserVars, reply, counters>>

-----------------------------------------------------------------------------
(* takeControl.                                                             *)
Taken(sh, v) == [sh EXCEPT !.owner = v, !.wanted = TRUE]
MayTake(s, v) == ~share[s].expired /\ seat[v] = s /\ ~shut
Woken(s, v) == share[s].active = 0 \/ share[s].owner # v \/ seat[v] # s \/ share[s].expired
Granted(s, v) == MayTake(s, v) /\ share[s].owner = v
Driven(sh) == [sh EXCEPT !.driving = TRUE]

(* currentInputTarget: the page the viewer saw is the session's still.      *)
Pressed(s, sh) ==
    IF page # sh.page THEN Refresh(Pops(sh), ViewersOf(s, seat) # {})
    ELSE IF sh.cdp = "none" THEN Pops(sh)
    ELSE [sh EXCEPT !.head = "sending"]

Handle(s) ==
    LET sh == share[s] v == Head1(s).by IN
    /\ sh.tail # <<>> /\ Head1(s).does = "input" /\ sh.head = "queued"
    /\ Sets(s, IF seat[v] # s \/ sh.cdp = "none" \/ ~MayTake(s, v) THEN Pops(sh)
               ELSE IF sh.active > 0 THEN [Taken(sh, v) EXCEPT !.head = "waiting"]
               ELSE Pressed(s, Driven(Taken(sh, v))))
    /\ UNCHANGED <<current, seat, tunnel, agent, endVars, browserVars, reply, counters>>

ResumeInput(s) ==
    LET sh == share[s] v == Head1(s).by IN
    /\ sh.head = "waiting" /\ Woken(s, v)
    /\ Sets(s, IF Granted(s, v) THEN Pressed(s, Driven(sh)) ELSE Pops(sh))
    /\ UNCHANGED <<current, seat, tunnel, agent, endVars, browserVars, reply, counters>>

(* The input of a page behind a dialog does not end before its answer.      *)
InputSent(s) ==
    /\ share[s].head = "sending" /\ dialog = "none"
    /\ Sets(s, Pops(share[s]))
    /\ UNCHANGED <<current, seat, tunnel, agent, endVars, browserVars, reply, counters>>

(* What the input does: it may open a popup, which the share follows, or a  *)
(* dialog.                                                                  *)
HumanMoves(s) ==
    /\ share[s].head = "sending" /\ moves < MaxMoves /\ dialog = "none"
    /\ moves' = moves + 1
    /\ \/ /\ \E p \in Tabs \ {page} :
                IF share[s].expired \/ shut \/ ~share[s].driving \/ share[s].active > 0
                THEN UNCHANGED <<page, share>>
                ELSE /\ page' = p
                     /\ Sets(s, [share[s] EXCEPT !.page = p, !.cdp = "none",
                                    !.opens = IF ViewersOf(s, seat) # {} /\ @ = "none" THEN p ELSE @])
          /\ UNCHANGED dialog
       \/ dialog' = "open" /\ UNCHANGED <<page, share>>
    /\ UNCHANGED <<current, seat, tunnel, agent, endVars, reply, inputs, commands>>

(* Control goes back once the viewer who has it left.                       *)
ReleaseViewer(s) ==
    LET sh == Pops(share[s]) v == Head1(s).by
        back == IF sh.owner = v
                THEN [sh EXCEPT !.owner = "none", !.wanted = FALSE, !.driving = FALSE] ELSE sh
    IN /\ share[s].tail # <<>> /\ Head1(s).does = "release"
       /\ Sets(s, IF ViewersOf(s, seat) = {} THEN [back EXCEPT !.cdp = "none"] ELSE back)
       /\ UNCHANGED <<current, seat, tunnel, agent, endVars, browserVars, reply, counters>>

-----------------------------------------------------------------------------
(* answerDialog: control is taken, then a lease of the session, and the     *)
(* dialog is answered if it still asks.                                     *)
Reply(v) ==
    /\ seat[v] > 0 /\ reply[v] = "none" /\ dialog # "none" /\ MayTake(seat[v], v)
    /\ LET sh == share[seat[v]] IN
       IF sh.active > 0
       THEN Sets(seat[v], Taken(sh, v)) /\ reply' = [reply EXCEPT ![v] = "waiting"]
       ELSE Sets(seat[v], Driven(Taken(sh, v))) /\ reply' = [reply EXCEPT ![v] = "control"]
    /\ UNCHANGED <<current, seat, tunnel, agent, endVars, browserVars, counters>>

ReplyResumes(v) ==
    /\ reply[v] = "waiting"
    /\ LET s == IF seat[v] > 0 THEN seat[v] ELSE 0 IN
       IF s = 0 THEN reply' = [reply EXCEPT ![v] = "none"] /\ UNCHANGED share
       ELSE /\ Woken(s, v)
            /\ IF Granted(s, v)
               THEN Sets(s, Driven(share[s])) /\ reply' = [reply EXCEPT ![v] = "control"]
               ELSE reply' = [reply EXCEPT ![v] = "none"] /\ UNCHANGED share
    /\ UNCHANGED <<current, seat, tunnel, agent, endVars, browserVars, counters>>

ReplyGoes(v) ==
    /\ reply[v] = "control"
    /\ IF shut \/ finish = "done" \/ seat[v] < 1 \/ dialog # "open"
       THEN reply' = [reply EXCEPT ![v] = "none"] /\ UNCHANGED dialog
       ELSE reply' = [reply EXCEPT ![v] = "answering"] /\ dialog' = "answering"
    /\ UNCHANGED <<share, current, seat, tunnel, agent, endVars, page, counters>>

ReplyEnds(v) ==
    /\ reply[v] = "answering"
    /\ reply' = [reply EXCEPT ![v] = "none"] /\ dialog' = "none"
    /\ UNCHANGED <<share, current, seat, tunnel, agent, endVars, page, counters>>

(* A dialog nobody answers is dismissed after two minutes.                  *)
DialogExpires ==
    /\ dialog = "open" /\ dialog' = "none"
    /\ UNCHANGED <<share, current, seat, tunnel, agent, endVars, page, reply, counters>>

-----------------------------------------------------------------------------
(* The agent.  withAgentShareControl reads the share once, at the call.     *)
Begins ==
    /\ agent.at = "idle" /\ ~shut /\ commands < MaxCommands
    /\ commands' = commands + 1
    /\ UNCHANGED <<current, tunnel, endVars, browserVars, reply, inputs, moves>>

Command(k) ==
    /\ Begins
    /\ agent' = [does |-> k, turn |-> current, at |-> IF current = 0 THEN "acting" ELSE "waits"]
    /\ UNCHANGED <<share, seat>>

Turns(n) == IF agent.turn = 0 THEN UNCHANGED share
            ELSE Sets(agent.turn, [share[agent.turn] EXCEPT !.active = @ + n])

TakesTurn ==
    /\ agent.at = "waits" /\ ~share[agent.turn].wanted
    /\ IF shut THEN agent' = NoCommand /\ UNCHANGED share
       ELSE agent' = [agent EXCEPT !.at = "acting"] /\ Turns(1)
    /\ UNCHANGED <<current, seat, tunnel, endVars, browserVars, reply, counters>>

(* The command's page actions: it may switch pages, open or answer a dialog. *)
AgentMoves ==
    /\ agent.at = "acting"
    /\ \/ moves < MaxMoves /\ moves' = moves + 1 /\ page' \in Tabs \ {page} /\ UNCHANGED dialog
       \/ moves < MaxMoves /\ moves' = moves + 1 /\ dialog = "none" /\ dialog' = "open" /\ UNCHANGED page
       \/ dialog = "open" /\ dialog' = "none" /\ UNCHANGED <<moves, page>>
    /\ UNCHANGED <<share, current, seat, tunnel, agent, endVars, reply, inputs, commands>>

(* yieldAgentAction, of operate_drive between two steps.                    *)
Yields ==
    /\ agent.at = "acting" /\ agent.does = "drive" /\ current # 0 /\ share[current].wanted
    /\ agent' = [agent EXCEPT !.at = "yielded"]
    /\ Turns(0 - 1)
    /\ UNCHANGED <<current, seat, tunnel, endVars, browserVars, reply, counters>>

Retakes ==
    /\ agent.at = "yielded" /\ ~share[agent.turn].wanted
    /\ agent' = [agent EXCEPT !.at = IF shut THEN "unwinding" ELSE "acting"]
    /\ Turns(1)
    /\ UNCHANGED <<current, seat, tunnel, endVars, browserVars, reply, counters>>

(* The request is cancelled while it waits for the human.                   *)
CommandAborted ==
    /\ \/ agent.at = "waits" /\ agent' = NoCommand /\ UNCHANGED share
       \/ agent.at = "yielded" /\ agent' = [agent EXCEPT !.at = "unwinding"] /\ Turns(1)
    /\ UNCHANGED <<current, seat, tunnel, endVars, browserVars, reply, counters>>

CommandEnds ==
    /\ agent.at \in {"acting", "unwinding"}
    /\ agent' = NoCommand /\ Turns(0 - 1)
    /\ UNCHANGED <<current, seat, tunnel, endVars, browserVars, reply, counters>>

-----------------------------------------------------------------------------
(* shareOperateSession: a share whose route is alive is renewed at once,    *)
(* another is stopped, and the next is made when its inputs are over.       *)
Renewed == current # 0 /\ tunnel /\ share[current].published /\ ~share[current].expired
Share ==
    /\ Begins
    /\ agent' = IF Renewed THEN NoCommand ELSE [does |-> "share", turn |-> current, at |-> "settling"]
    /\ IF current = 0 \/ Renewed THEN UNCHANGED <<share, seat>>
       ELSE Sets(current, Stopped(current)) /\ seat' = Unseated(current)

Settled == agent.turn # 0 => (share[agent.turn].tail = <<>> /\ ~share[agent.turn].wanted)
Made == Cardinality({s \in Shares : share[s].live})

Makes ==
    /\ agent.at = "settling" /\ Settled
    /\ IF shut THEN agent' = NoCommand /\ UNCHANGED <<share, current>>
       ELSE /\ Made < MaxShares
            /\ current' = Made + 1
            /\ Sets(Made + 1, [share[Made + 1] EXCEPT !.live = TRUE, !.page = page])
            /\ agent' = [agent EXCEPT !.at = "starting", !.turn = Made + 1]
    /\ UNCHANGED <<seat, tunnel, endVars, browserVars, reply, counters>>

(* start: the gateway answers over a live tunnel, or the share is given up. *)
Publishes ==
    /\ agent.at = "starting" /\ agent' = NoCommand
    /\ \/ /\ ~share[agent.turn].expired /\ ~shut
          /\ tunnel' = TRUE /\ Sets(agent.turn, [share[agent.turn] EXCEPT !.published = TRUE])
          /\ UNCHANGED current
       \/ /\ Sets(agent.turn, Stopped(agent.turn))
          /\ current' = IF current = agent.turn THEN 0 ELSE current
          /\ UNCHANGED tunnel
    /\ UNCHANGED <<seat, endVars, browserVars, reply, counters>>

(* The tunnel dies, and another session's operate_share replaces its        *)
(* gateway, which stops every share it served.                              *)
TunnelDies ==
    /\ tunnel /\ tunnel' = FALSE /\ Made < MaxShares
    /\ UNCHANGED <<share, current, seat, agent, endVars, browserVars, reply, counters>>
GatewayReplaced ==
    /\ ~tunnel /\ current # 0 /\ share[current].published /\ ~share[current].expired
    /\ Sets(current, Stopped(current)) /\ seat' = Unseated(current)
    /\ tunnel' = TRUE
    /\ UNCHANGED <<current, agent, endVars, browserVars, reply, counters>>

-----------------------------------------------------------------------------
(* finishProvisionSessionWithPreparation.                                   *)
Finish ==
    /\ finish = "idle"
    /\ finish' = "draining" /\ shut' = TRUE /\ current' = 0
    /\ IF current = 0 THEN UNCHANGED <<share, seat>>
       ELSE Sets(current, Stopped(current)) /\ seat' = Unseated(current)
    /\ UNCHANGED <<tunnel, agent, browserVars, reply, counters>>
Drained ==
    /\ finish = "draining" /\ Leases = {}
    /\ finish' = "preparing"
    /\ UNCHANGED <<share, current, seat, tunnel, agent, shut, browserVars, reply, counters>>
Prepared ==
    /\ finish = "preparing"
    /\ \/ finish' = "done" /\ UNCHANGED shut
       \/ MayFail /\ finish' = "idle" /\ shut' = FALSE
    /\ UNCHANGED <<share, current, seat, tunnel, agent, browserVars, reply, counters>>

ShareSteps(s) == Handle(s) \/ ResumeInput(s) \/ InputSent(s) \/ ReleaseViewer(s) \/ StreamOpens(s)
ReplySteps(v) == ReplyResumes(v) \/ ReplyGoes(v) \/ ReplyEnds(v)
AgentSteps == TakesTurn \/ Retakes \/ Yields \/ Makes \/ Publishes

ShareNext ==
    \/ \E v \in Viewers : ConnectViewer(v) \/ Send(v) \/ Leave(v) \/ Reply(v) \/ ReplySteps(v)
    \/ \E s \in Shares : ShareSteps(s) \/ HumanMoves(s) \/ Poll(s)
    \/ \E k \in {"act", "drive"} : Command(k)
    \/ Share \/ AgentSteps \/ AgentMoves \/ CommandAborted \/ CommandEnds
    \/ DialogExpires \/ TunnelDies \/ GatewayReplaced \/ Finish \/ Drained \/ Prepared

ShareSpec == ShareInit /\ [][ShareNext]_shareVars
ShareFairSpec ==
    /\ ShareSpec /\ WF_shareVars(AgentSteps) /\ WF_shareVars(CommandEnds)
    /\ WF_shareVars(DialogExpires) /\ WF_shareVars(Drained) /\ WF_shareVars(Prepared)
    /\ \A s \in Shares : WF_shareVars(ShareSteps(s))
    /\ \A v \in Viewers : WF_shareVars(ReplySteps(v))

-----------------------------------------------------------------------------
(* While an input of a human is on its way to the page, no command of the   *)
(* agent acts on it, and neither does an input of the share it replaced.    *)
HandsApart ==
    LET sending == {s \in Shares : share[s].head = "sending"}
    IN Cardinality(sending) <= 1 /\ (sending # {} => agent.at # "acting")

(* The agent is kept waiting by a viewer who is there, or whose departure   *)
(* is on its way: never by one who is gone for good.                        *)
NobodyGoneHolds ==
    \A s \in Shares :
        /\ share[s].wanted <=> share[s].owner # "none"
        /\ share[s].wanted =>
              LET v == share[s].owner
              IN seat[v] = s \/ [by |-> v, does |-> "release"] \in ToSet(share[s].tail)

(* An input goes to the page its share shows, which is the session's, even  *)
(* when it waited while the agent went to another.                          *)
PressesShown ==
    [][\A s \in Shares : (share'[s].head = "sending" /\ share[s].head # "sending")
           => share'[s].cdp = page]_shareVars

(* A viewer that asks gets its turn or is refused, a finish ends, and once  *)
(* every viewer is gone the agent goes on.                                  *)
AllLeft == \A v \in Viewers : seat[v] = -1
AgentWaits == agent.at \in {"waits", "yielded", "settling"}
TurnsCome ==
    /\ \A s \in Shares : share[s].head = "waiting" ~> share[s].head # "waiting"
    /\ finish \in {"draining", "preparing"} ~> finish \in {"idle", "done"}
    /\ (AllLeft /\ AgentWaits) ~> ~AgentWaits
=============================================================================
