---------------------------- MODULE WorkloadDriver ----------------------------
(***************************************************************************)
(* run_openai_workloads.py against OnlineServer: one client process per    *)
(* run sends the workload through a pool of Concurrency threads to         *)
(* whichever server owns the port.  A thread ends its request with a row   *)
(* of the results file (an answer, an HTTP error or a failed connection)   *)
(* or with an exception nobody in send_request catches: a stream that      *)
(* breaks or stalls.  Results are collected after every thread ended; one  *)
(* lost exception then costs the summary and the exit code.                *)
(***************************************************************************)
EXTENDS OnlineServer

CONSTANTS Concurrency

ASSUME ConcurrencyAssumption == Concurrency \in Nat \ {0}

VARIABLES
    client,   \* each run's client process
    call,     \* where each request of each client is
    via       \* the server each request went to (a history variable)

driverVars == <<client, call, via>>

DriverInit ==
    /\ client = [r \in Runs |-> "none"]
    /\ call = [r \in Runs |-> [q \in Requests(r) |-> "queued"]]
    /\ via = [r \in Runs |-> [q \in Requests(r) |-> Absent]]

Sent(r) == {q \in Requests(r) : call[r][q] = "sent"}
Queued(r) == {q \in Requests(r) : call[r][q] = "queued"}
Lost(r) == {q \in Requests(r) : call[r][q] = "lost"}

\* request_results.jsonl.
Row(r, q) == [id |-> q, ok |-> call[r][q] \in {"answered", "empty"}, latency |-> 1,
              ttft |-> IF call[r][q] = "answered" THEN 1 ELSE Absent]
Rows(r) == {Row(r, q) : q \in {q \in Requests(r) : call[r][q] \in {"answered", "empty", "refused"}}}

\* The pool starts requests in order.  Without a listener the connection is
\* refused, which is a URLError and so a row; a server may answer with an error
\* before it plans the request, or plan it, look it up and commit it.
Send(r, q) ==
    /\ client[r] = "running"
    /\ q \in Queued(r)
    /\ \A p \in Queued(r) : q <= p
    /\ Cardinality(Sent(r)) < Concurrency
    /\ \/ /\ Serving = {}
          /\ call' = [call EXCEPT ![r][q] = "refused"]
          /\ UNCHANGED <<via, trace>>
       \/ \E s \in Serving :
          /\ via' = [via EXCEPT ![r][q] = s]
          /\ \/ /\ call' = [call EXCEPT ![r][q] = "refused"]
                /\ UNCHANGED trace
             \/ /\ call' = [call EXCEPT ![r][q] = "sent"]
                /\ trace' = IF s \in OnDevice /\ server[s].registered
                            THEN [trace EXCEPT ![s] = @ \cup {[id |-> q, by |-> r]}]
                            ELSE trace
    /\ UNCHANGED <<client, server, crashes>>

Answer(r, q) ==
    /\ client[r] = "running"
    /\ q \in Sent(r)
    /\ via[r][q] \in Serving \cap OnDevice
    /\ call' = [call EXCEPT ![r][q] = "answered"]
    /\ UNCHANGED <<client, via, serverVars>>

\* HTTPError: the server fails the request it planned.
Reject(r, q) ==
    /\ client[r] = "running"
    /\ q \in Sent(r)
    /\ via[r][q] \in Serving
    /\ call' = [call EXCEPT ![r][q] = "refused"]
    /\ UNCHANGED <<client, via, serverVars>>

\* A stream that ends between two of its chunks is an end like any other, with
\* or without a [DONE]: what came so far is the answer, and may be nothing.
Truncate(r, q) ==
    /\ client[r] = "running"
    /\ q \in Sent(r)
    /\ via[r][q] \notin Serving
    /\ \E c \in {"answered", "empty"} : call' = [call EXCEPT ![r][q] = c]
    /\ UNCHANGED <<client, via, serverVars>>

\* Mutant: no timeout, a stream only breaks when the server goes away.
BreakOnReset(r, q) ==
    /\ client[r] = "running"
    /\ q \in Sent(r)
    /\ via[r][q] \notin Serving
    /\ call' = [call EXCEPT ![r][q] = "lost"]
    /\ UNCHANGED <<client, via, serverVars>>

\* The connection is reset or the stream is silent for 300 s.
Break(r, q) ==
    /\ client[r] = "running"
    /\ q \in Sent(r)
    /\ call' = [call EXCEPT ![r][q] = "lost"]
    /\ UNCHANGED <<client, via, serverVars>>

\* Every future is done.  result() raises for a lost request and main ends
\* without writing the summary.
Collect(r) ==
    /\ client[r] = "running"
    /\ Queued(r) \cup Sent(r) = {}
    /\ client' = [client EXCEPT ![r] = IF Lost(r) = {} THEN "finished" ELSE "crashed"]
    /\ UNCHANGED <<call, via, serverVars>>

\* request_summary.json, over the results the threads returned.
Summary(r) == IF client[r] = "finished" THEN SummaryOf(Rows(r)) ELSE Absent

\* What a client does without an answer.
ClientStep(r) == Collect(r) \/ \E q \in Requests(r) : Send(r, q) \/ Break(r, q)

DriverNext ==
    \E r \in Runs :
        \/ ClientStep(r)
        \/ \E q \in Requests(r) : Answer(r, q) \/ Reject(r, q) \/ Truncate(r, q)
=============================================================================
