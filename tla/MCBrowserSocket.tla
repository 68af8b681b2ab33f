-------------------------- MODULE MCBrowserSocket --------------------------
(* Instances of BrowserSocket and ObjectDetails for model checking: the     *)
(* list of the browser and what it shows of one object.  A list that has    *)
(* come does no more to the details than to end the list of versions, which *)
(* is a step of ObjectDetails (LeaveVersions), so each behaviour runs one   *)
(* of them beside the other at rest.                                        *)
EXTENDS BrowserSocket, ObjectDetails, TLC

VARIABLE part   \* which of them runs in this behaviour

(* "a" begins the names of the others. *)
MCLonger == [o \in Objects |-> IF ToString(o) = "a" THEN Objects \ {o} ELSE {}]

all == <<vars, details, part>>

InListing(A) == part = "listing" /\ A /\ UNCHANGED <<details, part>>

(* What does not run rests in one state.                                   *)
MCInit ==
  /\ part \in {"listing", "details"}
  /\ Init /\ DetailsInit
  /\ part = "listing" => path = Folder /\ versioned
  /\ part = "details" => location = NoPath

MCNext ==
  \/ InListing(Next)
  \/ part = "details" /\ DetailsNext /\ UNCHANGED <<vars, part>>

(* The fairness of BrowserSocket's FairSpec. *)
MCSpec ==
  /\ MCInit /\ [][MCNext]_all
  /\ WF_all(InListing(Commit)) /\ WF_all(InListing(RunEffect))
  /\ WF_all(InListing(OBConnect)) /\ WF_all(InListing(Retry))
  /\ \A s \in Sockets : WF_all(InListing(OnOpen(s))) /\ WF_all(InListing(OnMessage(s)))
=============================================================================
