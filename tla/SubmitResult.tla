--------------------------- MODULE SubmitResult ---------------------------
(***************************************************************************)
(* How the miner reads the pool's answer to a submitted block              *)
(* (networking/submit_result.py).  An answer is an HTTP status and the     *)
(* text of the body.  Of the text only the phrases the code looks for      *)
(* matter, so a body is the set of those phrases it contains.  Status 0    *)
(* is what networking/submitter.py reports when no HTTP answer arrived.    *)
(***************************************************************************)
EXTENDS Naturals

\* The phrases submit_result.py searches a lower-cased body for:
\*   already_exists  "already exists"
\*   no_m            "hash does not contain 'm=...'" and its variants
\*   time_window     "time window", "time frame" and their variants
\*   timeout         "timed out", "urlopen error", "connection ... reset", ...
Phrase == {"already_exists", "no_m", "time_window", "timeout"}

Response == [status : Nat, body : SUBSET Phrase]

\* Mutants: every status that is not an HTTP error is a success; every body
\* the code knows how to read is an acceptance.
SuccessStatusBelow400(status) == status < 400

SuccessStatus(status) == status \in 200..299

SubmitAcceptedKnownBody(r) == SuccessStatus(r.status) \/ r.body # {}

SubmitAccepted(r) ==
    \/ SuccessStatus(r.status)
    \/ "already_exists" \in r.body

IsDifficultyMismatch(r) ==
    /\ r.status # 0
    /\ "no_m" \in r.body

IsXuniWindowReject(r) ==
    /\ r.status # 0
    /\ "time_window" \in r.body

IsTransientSubmitFailure(r) ==
    \/ r.status = 0
    \/ "timeout" \in r.body

CountsAsReject(r) ==
    /\ ~SubmitAccepted(r)
    /\ ~IsDifficultyMismatch(r)
    /\ ~IsXuniWindowReject(r)
    /\ ~IsTransientSubmitFailure(r)

(***************************************************************************)
(* Answers the pool and the transport give.  The pool is not part of the   *)
(* repository: the statuses and bodies are those of tests/                 *)
(* test_submit_result.py and of submitter.py's error branches.             *)
(***************************************************************************)
NoAnswer      == [status |-> 0,   body |-> {}]
Stored        == [status |-> 200, body |-> {}]
AlreadyExists == [status |-> 409, body |-> {"already_exists"}]
WrongM        == [status |-> 401, body |-> {"no_m"}]
OutOfWindow   == [status |-> 400, body |-> {"time_window"}]
GatewayTimeout == [status |-> 504, body |-> {"timeout"}]
Refused       == [status |-> 500, body |-> {}]
===========================================================================
