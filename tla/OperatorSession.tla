--------------------------- MODULE OperatorSession ---------------------------
(* An operator session: the commands and closers that meet in the broker, and *)
(* the people who watch and drive its page.  The share counts on one command  *)
(* of a session at a time, which is OneAtATime.                               *)
EXTENDS BrokerSessions, LiveShare

OperatorSpec == SessionSpec /\ ShareSpec

(* One command of a session runs at a time, its tabs close when nothing runs  *)
(* on them, and a finish is told of a closure that happened.  In a live share *)
(* the hands of the human and of the agent stay apart, nobody who left keeps  *)
(* the agent waiting, and an input goes to the page its viewer was shown.     *)
SessionsSafe ==
    /\ [](SessionTypeOK /\ OneAtATime /\ TabsCloseIdle /\ ToldIsClosed)
    /\ [](ShareTypeOK /\ HandsApart /\ NobodyGoneHolds)
    /\ PressesShown
=============================================================================
