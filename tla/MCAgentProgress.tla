-------------------------- MODULE MCAgentProgress ---------------------------
(* What a machine's agent must get done in the end: starts, commands, recycles,
   elections, drives, sign-ins and the pairing of a machine come to an end. The
   components share no state, so one run puts them side by side: part names the
   one that moves. *)
EXTENDS BrokerCustody, Integers, Sequences, FiniteSets, TLC

CONSTANTS
    k1, k2, bare, proxied, f1, drop, s1, d1, g1, g2, g3, a1, p1, Unset, NoCall, Parts

MCWants == [k \in Calls |-> IF k = k2 THEN proxied ELSE bare]

VARIABLES
    part,   \* the component this behaviour is of
    sessionsLink, sessionsOpening, sessionsAborted, sessionsActor, sessionsFenced,
    sessionsCmd, sessionsQueue, sessionsRegistered, sessionsEnding, sessionsForced,
    sessionsTrans, sessionsRetry, sessionsVerdict, sessionsFamily, sessionsTabs,
    sessionsRelease, sessionsExpiry, sessionsBrowser,
    forwardConn, forwardWire, forwardKnown, forwardWalls, forwardPc, forwardOld, forwardMine,
    forwardFresh, forwardNames, forwardCancelled, forwardHeldBy, forwardRan, forwardTold,
    electionProc, electionLock, electionPath, electionChrome, electionUnit, electionCounts,
    electionGhost,
    driveSite, drivePageNow, driveDrift, driveDrive, driveLoop, driveTrace,
    loginAt, loginScreen, loginDoc, loginSlots, loginRestore, loginAttempt, loginPhases,
    loginRun, loginOutcome, loginTally, loginTurns,
    leaseStage, leaseWorking, leaseAhead, leaseTail, leaseReleased, leaseAnswer,
    clickControl, clickSeen, clickNames, clickFit, clickClicks, clickPresses, clickShown,
    clickPage, clickDialog, clickInert, clickAct, clickJournal, clickMoves, clickErrors,
    processHost, processOurs, processOther, processOwn, processStart, processPw,
    processCloses, processReaper, processAnswer, processFaults, processHit, processDropped,
    liveShare, liveCurrent, liveSeat, liveTunnel, liveAgent, liveFinish, liveShut, livePage,
    liveDialog, liveReply, liveInputs, liveCommands, liveMoves,
    pairingRow, pairingDead, pairingMachine, pairingSess, pairingAlive, pairingReq,
    pairingCli, pairingPage, pairingGiven

Sessions == INSTANCE BrokerSessions WITH
    Operations <- {k1, k2}, Logins <- {k2}, Finishes <- {f1}, Drop <- drop,
    SlowClose <- FALSE, MayLose <- FALSE, link <- sessionsLink, opening <- sessionsOpening,
    aborted <- sessionsAborted, actor <- sessionsActor, fenced <- sessionsFenced,
    cmd <- sessionsCmd, queue <- sessionsQueue, registered <- sessionsRegistered,
    ending <- sessionsEnding, forced <- sessionsForced, trans <- sessionsTrans,
    retry <- sessionsRetry, verdict <- sessionsVerdict, family <- sessionsFamily,
    tabs <- sessionsTabs, release <- sessionsRelease, expiry <- sessionsExpiry,
    browser <- sessionsBrowser

Forward == INSTANCE BrokerForward WITH
    Starts <- {}, Drives <- {d1}, Commands <- {k1}, Closes <- {}, MaxConns <- 2,
    conn <- forwardConn, wire <- forwardWire, known <- forwardKnown, walls <- forwardWalls,
    pc <- forwardPc, old <- forwardOld, mine <- forwardMine, fresh <- forwardFresh,
    names <- forwardNames, cancelled <- forwardCancelled, heldBy <- forwardHeldBy,
    ran <- forwardRan, told <- forwardTold

Election == INSTANCE BrokerElection WITH
    Pids <- 1..3, Managed <- FALSE, Scoped <- FALSE, Legacy <- FALSE, StartLimit <- 2,
    MaxOthers <- 1, MaxFaults <- 1, proc <- electionProc, lock <- electionLock,
    path <- electionPath, chrome <- electionChrome, unit <- electionUnit,
    counts <- electionCounts, ghost <- electionGhost

Drive == INSTANCE OperateDrive WITH
    Sites <- {[pages |-> {g1, g2, g3}, kind |-> g1 :> "gate" @@ g2 :> "gate" @@ g3 :> "plain", keys |-> {k1}, sections |-> {}, submits |-> {k1}]},
    MaxSteps <- 1, MaxJev <- 1, StaleLimit <- 2, DeadLimit <- 2, OcclusionLimit <- 2,
    Seconds <- 1, MaxDrift <- 1, MaxDrives <- 1, site <- driveSite, pageNow <- drivePageNow,
    drift <- driveDrift, drive <- driveDrive, loop <- driveLoop, trace <- driveTrace

Login == INSTANCE OAuthLogin WITH
    Calls <- {1}, MaxTurns <- 3, at <- loginAt, screen <- loginScreen, doc <- loginDoc,
    slots <- loginSlots, restore <- loginRestore, attempt <- loginAttempt,
    phases <- loginPhases, run <- loginRun, outcome <- loginOutcome, tally <- loginTally,
    turns <- loginTurns

Lease == INSTANCE OAuthLease WITH
    Actions <- {k1, k2, s1}, NoAction <- NoCall, stage <- leaseStage,
    working <- leaseWorking, ahead <- leaseAhead, tail <- leaseTail,
    released <- leaseReleased, answer <- leaseAnswer

Click == INSTANCE OperateClick WITH
    Nodes <- {g1, g2},
    Controls <- ({[via |-> v, is |-> "button", humanized |-> h, active |-> TRUE, modal |-> v # "locator", prompt |-> TRUE] : v \in {"ref", "frame", "locator", "drive"}, h \in BOOLEAN} \cup {[via |-> "ref", is |-> i, humanized |-> TRUE, active |-> TRUE, modal |-> TRUE, prompt |-> TRUE] : i \in {"switch", "keyed", "item"}} \cup {[via |-> "drive", is |-> "option", humanized |-> TRUE, active |-> TRUE, modal |-> FALSE, prompt |-> p] : p \in BOOLEAN} \cup {[via |-> v, is |-> "button", humanized |-> TRUE, active |-> FALSE, modal |-> FALSE, prompt |-> TRUE] : v \in {"ref", "locator"}}),
    MaxMoves <- 1, MaxErrors <- 1, control <- clickControl, seen <- clickSeen,
    names <- clickNames, fit <- clickFit, clicks <- clickClicks, presses <- clickPresses,
    shown <- clickShown, page <- clickPage, dialog <- clickDialog, inert <- clickInert,
    act <- clickAct, journal <- clickJournal, moves <- clickMoves, errors <- clickErrors

Process == INSTANCE BrowserProcess WITH
    Hosts <- {h \in [scoped : BOOLEAN, linux : BOOLEAN, spawns : BOOLEAN, held : {FALSE}] : h.scoped => h.linux},
    Forcers <- {s1}, MaxFailures <- 1, host <- processHost, ours <- processOurs,
    other <- processOther, own <- processOwn, start <- processStart, pw <- processPw,
    closes <- processCloses, reaper <- processReaper, answer <- processAnswer,
    faults <- processFaults, hit <- processHit, dropped <- processDropped

Live == INSTANCE LiveShare WITH
    Viewers <- {k1}, Tabs <- {g1, g2}, MaxShares <- 2, MaxInputs <- 1, MaxCommands <- 2,
    MaxMoves <- 1, MayFail <- FALSE, share <- liveShare, current <- liveCurrent,
    seat <- liveSeat, tunnel <- liveTunnel, agent <- liveAgent, finish <- liveFinish,
    shut <- liveShut, page <- livePage, dialog <- liveDialog, reply <- liveReply,
    inputs <- liveInputs, commands <- liveCommands, moves <- liveMoves

Pairing == INSTANCE Pairing WITH
    Codes <- {k1}, Pages <- {g1}, Accounts <- {a1}, Polls <- {p1}, None <- Unset, Apps <- {},
    Overlap <- FALSE, row <- pairingRow, dead <- pairingDead, machine <- pairingMachine,
    sess <- pairingSess, alive <- pairingAlive, req <- pairingReq, cli <- pairingCli,
    page <- pairingPage, given <- pairingGiven

ASSUME CustodyAssumption

sessionsVars == <<sessionsLink, sessionsOpening, sessionsAborted, sessionsActor,
                  sessionsFenced, sessionsCmd, sessionsQueue, sessionsRegistered,
                  sessionsEnding, sessionsForced, sessionsTrans, sessionsRetry,
                  sessionsVerdict, sessionsFamily, sessionsTabs, sessionsRelease,
                  sessionsExpiry, sessionsBrowser>>
forwardVars == <<forwardConn, forwardWire, forwardKnown, forwardWalls, forwardPc, forwardOld,
                 forwardMine, forwardFresh, forwardNames, forwardCancelled, forwardHeldBy,
                 forwardRan, forwardTold>>
electionVars == <<electionProc, electionLock, electionPath, electionChrome, electionUnit,
                  electionCounts, electionGhost>>
driveVars == <<driveSite, drivePageNow, driveDrift, driveDrive, driveLoop, driveTrace>>
loginVars == <<loginAt, loginScreen, loginDoc, loginSlots, loginRestore, loginAttempt,
               loginPhases, loginRun, loginOutcome, loginTally, loginTurns>>
leaseVars == <<leaseStage, leaseWorking, leaseAhead, leaseTail, leaseReleased, leaseAnswer>>
clickVars == <<clickControl, clickSeen, clickNames, clickFit, clickClicks, clickPresses,
               clickShown, clickPage, clickDialog, clickInert, clickAct, clickJournal,
               clickMoves, clickErrors>>
processVars == <<processHost, processOurs, processOther, processOwn, processStart, processPw,
                 processCloses, processReaper, processAnswer, processFaults, processHit,
                 processDropped>>
liveVars == <<liveShare, liveCurrent, liveSeat, liveTunnel, liveAgent, liveFinish, liveShut,
              livePage, liveDialog, liveReply, liveInputs, liveCommands, liveMoves>>
pairingVars == <<pairingRow, pairingDead, pairingMachine, pairingSess, pairingAlive,
                 pairingReq, pairingCli, pairingPage, pairingGiven>>

(* One component moves; the others rest where they start.                   *)
all == <<part, custodyVars, sessionsVars, forwardVars, electionVars, driveVars, loginVars,
          leaseVars, clickVars, processVars, liveVars, pairingVars>>

ComposedInit ==
    /\ part \in Parts
    /\ CustodyInit
    /\ Sessions!SessionInit
    /\ Forward!ForwardInit
    /\ Election!Init
    /\ Drive!DriveInit
    /\ part # "drive" => drivePageNow = g1
    /\ Login!LoginInit
    /\ Lease!LeaseInit
    /\ Click!ClickInit
    /\ part # "click" => clickControl.is = "item" /\ clickSeen = g1 /\ clickFit[g1] = "ready"
    /\ Process!ProcessInit
    /\ part # "process" => ~processHost.scoped /\ ~processHost.linux /\ processHost.spawns /\ ~processHost.held
    /\ Live!ShareInit
    /\ part # "live" => livePage = g1
    /\ Pairing!Init

ComposedNext ==
    /\ UNCHANGED part
    /\ \/ /\ part = "custody" /\ CustodyNext
          /\ UNCHANGED <<sessionsVars, forwardVars, electionVars, driveVars, loginVars,
                        leaseVars, clickVars, processVars, liveVars, pairingVars>>
       \/ /\ part = "sessions" /\ Sessions!SessionNext
          /\ UNCHANGED <<custodyVars, forwardVars, electionVars, driveVars, loginVars,
                        leaseVars, clickVars, processVars, liveVars, pairingVars>>
       \/ /\ part = "forward" /\ Forward!ForwardNext
          /\ UNCHANGED <<custodyVars, sessionsVars, electionVars, driveVars, loginVars,
                        leaseVars, clickVars, processVars, liveVars, pairingVars>>
       \/ /\ part = "election" /\ Election!Next
          /\ UNCHANGED <<custodyVars, sessionsVars, forwardVars, driveVars, loginVars,
                        leaseVars, clickVars, processVars, liveVars, pairingVars>>
       \/ /\ part = "drive" /\ Drive!DriveNext
          /\ UNCHANGED <<custodyVars, sessionsVars, forwardVars, electionVars, loginVars,
                        leaseVars, clickVars, processVars, liveVars, pairingVars>>
       \/ /\ part = "login" /\ Login!LoginNext
          /\ UNCHANGED <<custodyVars, sessionsVars, forwardVars, electionVars, driveVars,
                        leaseVars, clickVars, processVars, liveVars, pairingVars>>
       \/ /\ part = "lease" /\ Lease!LeaseNext
          /\ UNCHANGED <<custodyVars, sessionsVars, forwardVars, electionVars, driveVars,
                        loginVars, clickVars, processVars, liveVars, pairingVars>>
       \/ /\ part = "click" /\ Click!ClickNext
          /\ UNCHANGED <<custodyVars, sessionsVars, forwardVars, electionVars, driveVars,
                        loginVars, leaseVars, processVars, liveVars, pairingVars>>
       \/ /\ part = "process" /\ Process!ProcessNext
          /\ UNCHANGED <<custodyVars, sessionsVars, forwardVars, electionVars, driveVars,
                        loginVars, leaseVars, clickVars, liveVars, pairingVars>>
       \/ /\ part = "live" /\ Live!ShareNext
          /\ UNCHANGED <<custodyVars, sessionsVars, forwardVars, electionVars, driveVars,
                        loginVars, leaseVars, clickVars, processVars, pairingVars>>
       \/ /\ part = "pairing" /\ Pairing!Next
          /\ UNCHANGED <<custodyVars, sessionsVars, forwardVars, electionVars, driveVars,
                        loginVars, leaseVars, clickVars, processVars, liveVars>>

Composed == ComposedInit /\ [][ComposedNext]_all

moving == CASE part = "custody" -> custodyVars
            [] part = "sessions" -> sessionsVars
            [] part = "forward" -> forwardVars
            [] part = "election" -> electionVars
            [] part = "drive" -> driveVars
            [] part = "login" -> loginVars
            [] part = "lease" -> leaseVars
            [] part = "pairing" -> pairingVars
            [] part = "process" -> processVars
            [] part = "click" -> clickVars
            [] part = "live" -> liveVars

(* The i-th obligation of each component, all of them steps of running code,
   answers of a living peer, deadlines and the expiry of leases.              *)
CustodyStep(i) ==
    \/ i \in 1..3 /\ Proceeds(<<k1, k2, Daemon>>[i])
    \/ i = 4 /\ Running(Daemon) /\ (Launching \/ Exit)
    \/ i \in 5..6 /\ Running(Daemon)
                  /\ (CloseProves(i - 4) \/ CloseUnproven(i - 4))

SessionsStep(i) ==
    \/ i = 1 /\ Sessions!SessionStarts
    \/ i = 2 /\ Sessions!Clean
    \/ i = 3 /\ Sessions!TabsReleased
    \/ i = 4 /\ Sessions!CloseActor
    \/ i = 5 /\ Sessions!CloseSession
    \/ i \in 6..7 /\ Sessions!Working(<<k1, k2>>[i - 5])

Call == <<d1, k1>>
ForwardStep(i) ==
    \/ i \in 1..2 /\ \/ Forward!ReplayWall(Call[i]) \/ Forward!Existing(Call[i])
                     \/ Forward!Connected(Call[i]) \/ Forward!Dispatch(Call[i])
                     \/ Forward!Opened(Call[i]) \/ Forward!Declined(Call[i])
                     \/ Forward!Answered(Call[i])
    \/ i \in 3..4 /\ Forward!Serviced(Call[i - 2])
    \/ i \in 5..6 /\ Forward!Handshake(i - 4)
    \/ i \in 7..8 /\ Forward!LeaseEnds(i - 6)

ElectionStep(i) ==
    \/ i = 1 /\ Election!Restart
    \/ i \in 2..4 /\ Election!Step(i - 1)
    \/ i \in 5..7 /\ Election!EndsItself(i - 4)

LoginStep(i) ==
    \/ i = 1 /\ loginRun # Login!NoRun
             /\ \/ Login!Recover \/ Login!Click \/ Login!Adopt
                \/ Login!ChallengeEnds \/ Login!Claim \/ Login!Tap
    \/ i = 2 /\ loginRun # Login!NoRun /\ Login!Finish

LeaseStep(i) ==
    \E c \in {k1, k2, s1} :
        LET n == CHOOSE n \in 1..3 : <<k1, k2, s1>>[n] = c
        IN \/ i = n /\ Lease!Acquire(c)
           \/ i = n + 3 /\ Lease!OperationEnds(c)
           \/ i = n + 6 /\ Lease!Release(c)

ProcessStep(i) ==
    \/ i = 1 /\ Process!StartRuns
    \/ i = 2 /\ Process!CloseGoes
    \/ i = 3 /\ Process!External
    \/ i \in 4..6 /\ Process!Closing(<<"start", "close", s1>>[i - 3])

LiveStep(i) ==
    \/ i = 1 /\ (Live!AgentSteps \/ Live!CommandEnds)
    \/ i \in 2..3 /\ Live!ShareSteps(i - 1)
    \/ i = 4 /\ Live!ReplySteps(k1)
    \/ i = 5 /\ Live!DialogExpires
    \/ i = 6 /\ (Live!Drained \/ Live!Prepared)

Proceeding(i) ==
    /\ UNCHANGED part
    /\ \/ part = "custody" /\ CustodyStep(i)
       \/ part = "sessions" /\ SessionsStep(i)
       \/ part = "forward" /\ ForwardStep(i)
       \/ part = "election" /\ ElectionStep(i)
       \/ part = "drive" /\ ((i = 1 /\ Drive!Loop) \/ (i = 2 /\ Drive!DriveTick))
       \/ part = "login" /\ LoginStep(i)
       \/ part = "lease" /\ LeaseStep(i)
       \/ part = "pairing" /\ ((i = 1 /\ Pairing!Deadline(k1)) \/ (i = 2 /\ Pairing!Save(k1)))
       \/ part = "click" /\ i = 1 /\ Click!ClickSteps
       \/ part = "live" /\ LiveStep(i)
       \/ part = "process" /\ ProcessStep(i) /\ UNCHANGED processHost

FairlyComposed ==
    /\ Composed
    /\ \A i \in 1..9 : WF_moving(Proceeding(i))
    /\ SF_moving(UNCHANGED part /\ part = "login" /\ loginRun # Login!NoRun /\ Login!Settles)

Due(i) ==
    \/ part = "custody" /\ i \in 1..2 /\ at[<<k1, k2>>[i]].pc # "idle"
    \/ part = "custody" /\ i = 3 /\ recycling
    \/ part = "sessions" /\ i = 1 /\ sessionsLink # "up"
    \/ part = "sessions" /\ i \in 2..3 /\ sessionsCmd[<<k1, k2>>[i - 1]] # "idle"
    \/ part = "forward" /\ i \in 1..2 /\ forwardPc[Call[i]] # "idle"
    \/ part = "forward" /\ i = 3 /\ forwardTold[d1] = "broker_lost"
    \/ part = "election" /\ i \in 1..3 /\ Election!Starting(i)
    \/ part = "election" /\ i = 4 /\ electionUnit.state = "failed"
    \/ part = "drive" /\ i = 1 /\ driveLoop.pc # "idle"
    \/ part = "login" /\ i = 1 /\ loginRun # Login!NoRun
    \/ part = "lease" /\ i \in 1..3 /\ leaseStage[<<k1, k2, s1>>[i]] = "queued"
    \/ part = "pairing" /\ i = 1 /\ pairingCli[k1].at = "wait"
    \/ part = "click" /\ i = 1
    \/ part = "process" /\ i = 1 /\ processOwn.cancel
    \/ part = "process" /\ i = 2 /\ processAnswer["close"] = "pending"
    \/ part = "live" /\ i \in 1..2 /\ liveShare[i].head = "waiting"
    \/ part = "live" /\ i = 3 /\ liveFinish \in {"draining", "preparing"}
    \/ part = "live" /\ i = 4 /\ Live!AllLeft /\ Live!AgentWaits

Done(i) ==
    \/ part = "custody" /\ \/ at[Daemon].pc = "exited"
                           \/ i \in 1..2 /\ at[<<k1, k2>>[i]].pc \in {"open", "over"}
                           \/ i = 3 /\ ~recycling
    \/ part = "sessions" /\ i = 1 /\ Sessions!Over
    \/ part = "sessions" /\ i \in 2..3 /\ sessionsCmd[<<k1, k2>>[i - 1]] = "done"
    \/ part = "forward" /\ i \in 1..2 /\ forwardPc[Call[i]] = "done"
    \/ part = "forward" /\ i = 3 /\ forwardHeldBy[d1] = 0
    \/ part = "election" /\ i \in 1..3 /\ ~Election!Starting(i)
    \/ part = "election" /\ i = 4 /\ \/ Election!Serving \/ electionUnit.state = "stopped"
                                     \/ electionUnit.state = "failed" /\ electionUnit.starts = 2
    \/ part = "drive" /\ driveLoop.pc = "idle"
    \/ part = "login" /\ loginRun = Login!NoRun
    \/ part = "lease" /\ i \in 1..3 /\ leaseAnswer[<<k1, k2, s1>>[i]] # "none"
    \/ part = "pairing" /\ pairingCli[k1].at \in Pairing!Ended
    \/ part = "click" /\ clickAct.answer # "none"
    \/ part = "process" /\ i = 1 /\ processOwn.settled
    \/ part = "live" /\ i \in 1..2 /\ liveShare[i].head # "waiting"
    \/ part = "live" /\ i = 3 /\ liveFinish \notin {"draining", "preparing"}
    \/ part = "live" /\ i = 4 /\ ~Live!AgentWaits
    \/ part = "process" /\ i = 2 /\ processAnswer["close"] \in Process!States \cup {"error"}

(* A start and the recycle of a lost Chrome end, even if closes end unproven;
   the sessions of a dropped connection close and their commands are answered;
   a forwarded call ends also when its answer was lost; a process that starts
   gets to serve or ends, and the service comes back; a drive call, a sign-in
   and a wait for the sign-in lease end; a connect run ends; a start of Chrome
   that is cancelled settles, and so does its close; a click is answered; a
   viewer gets its turn and so does the agent once every viewer left.  On the
   way calls prepared together are not sent again when their connection is
   lost, and who listens on a host without systemd is the broker elected there. *)
AgentSettles ==
    /\ \A i \in 1..4 : Due(i) ~> Done(i)
    /\ [](part = "forward" => Forward!NeverReplayed)
    /\ [](part = "election" => Election!ElectionSafe)
=============================================================================
