-------------------------- MODULE MCObjectStreams --------------------------
(* An instance of ObjectStreams for model checking: each behaviour runs one *)
(* of its parts beside the others at rest.                                  *)
EXTENDS ObjectStreams, MCZipStream

VARIABLE part   \* which of them runs in this behaviour

MCNamed == {-4, -1, 0, 1, 2, 3}
MCLengths == {1, 2, 3, 4, 6, 12, 15, 16}

all == <<vars, get, put, set, part>>

(* What does not run rests in one state.                                   *)
MCInit ==
  /\ part \in {"zip", "get", "put", "sets"}
  /\ \/ part = "zip"
     \/ part # "zip" /\ asked = [folder |-> FALSE, items |-> <<File("b")>>]
  /\ part = "get" \/ (part # "get" /\ size = 0 /\ header = <<>>)
  /\ part = "put" \/ (part # "put" /\ form = <<>> /\ broken = FALSE)
  /\ part = "sets" \/ (part # "sets" /\ args = <<<<4>>>>)
  /\ Init /\ Get!Init /\ Form!Init /\ Sets!Init

ZipRuns == part = "zip" /\ Next /\ UNCHANGED <<get, put, set, part>>
DownloadRuns == part = "get" /\ Get!Next /\ UNCHANGED <<vars, put, set, part>>
UploadRuns == part = "put" /\ Form!Next /\ UNCHANGED <<vars, get, set, part>>
SetsRun == part = "sets" /\ Sets!Next /\ UNCHANGED <<vars, get, put, part>>

MCNext == ZipRuns \/ DownloadRuns \/ UploadRuns \/ SetsRun

ZipStep(A) == part = "zip" /\ A /\ UNCHANGED <<get, put, set, part>>
MCSpec ==
  /\ MCInit /\ [][MCNext]_all
  /\ WF_all(ZipStep(StoreEnds)) /\ WF_all(ZipStep(PipeGoes)) /\ WF_all(ZipStep(ThreadsGo))
=============================================================================
