------------------------------ MODULE LlmClient ------------------------------
(***************************************************************************)
(* The clients of the language model: calls that are repeated while their  *)
(* errors are worth it, and the chat messages that a turn's contents       *)
(* become on an OpenAI-compatible wire.                                    *)
(*                                                                         *)
(* Contents are texts, the model's function calls and the functions'       *)
(* responses; only roles and names are kept of them.  The number of a call *)
(* in its turn, which its response shares, is not on the wire: the wire    *)
(* pairs the two by an id of its own.                                      *)
(***************************************************************************)
EXTENDS Naturals, Sequences, FiniteSets, SequencesExt

CONSTANTS
  Msgs,        \* message jobs, each with one call to the model at a time
  Attempts,    \* requests of a call at most (5 in the code)
  Faults,      \* kinds of failure the environment may inject
  MaxFaults    \* bound: failures injected in one behaviour

ASSUME LlmClientAssumption ==
  /\ Attempts \in Nat \ {0}
  /\ Faults \subseteq {"llm", "refused", "turn", "crash"}
  /\ MaxFaults \in Nat

VARIABLES
  call,        \* the call of a job
  lapses       \* failures injected so far

NoCall == [pc |-> "none", attempt |-> 0]
Asking == [pc |-> "asking", attempt |-> 1]

ClientTypeOK ==
  /\ call \in [Msgs -> [pc : {"none", "asking", "backoff", "gaveUp"}, attempt : 0..Attempts]]
  /\ lapses \in 0..MaxFaults

ClientInit ==
  /\ call = [m \in Msgs |-> NoCall]
  /\ lapses = 0

Lapse(k) == k \in Faults /\ lapses < MaxFaults /\ lapses' = lapses + 1

Calling(m, pc) == call[m].pc = pc

-----------------------------------------------------------------------------
(* classifyError: a status of 429 or 5xx, or none, is worth another        *)
(* request ("llm"); any other is final ("refused").                        *)
AfterError_Lost(c, k) ==                  \* mutant: the last error is not thrown
  IF k = "llm" /\ c.attempt < Attempts THEN "backoff" ELSE "none"
AfterError(c, k) == IF k = "llm" /\ c.attempt < Attempts THEN "backoff" ELSE "gaveUp"

RequestFails(m) ==
  /\ Calling(m, "asking")
  /\ \E k \in {"llm", "refused"} :
       /\ Lapse(k)
       /\ call' = [call EXCEPT ![m].pc = AfterError(call[m], k)]

BackoffEnds(m) ==
  /\ Calling(m, "backoff")
  /\ call' = [call EXCEPT ![m] = [pc |-> "asking", attempt |-> @.attempt + 1]]

-----------------------------------------------------------------------------
Text(role) == [kind |-> "text", role |-> role]
FunctionCall(name, n) == [kind |-> "call", name |-> name, nth |-> n]
FunctionResponse(name, n) == [kind |-> "response", name |-> name, nth |-> n]

(* buildRequest.  A text goes on in the last message if that is a text of  *)
(* the same role; a response takes the first id that waits for its name.   *)
NoMessages == [messages |-> <<>>, pending |-> <<>>, seq |-> 0]

AddText(w, p) ==
  IF w.messages # <<>> /\ Last(w.messages).role = p.role THEN w
  ELSE [w EXCEPT !.messages = Append(@, [role |-> p.role])]

AddCall(w, p) ==
  [messages |-> Append(w.messages, [role |-> "call", id |-> w.seq + 1, nth |-> p.nth]),
   pending |-> Append(w.pending, [name |-> p.name, id |-> w.seq + 1]),
   seq |-> w.seq + 1]

Waiting_Last(w, name) ==    \* mutant: the last call of that name is answered
  SelectLastInSeq(w.pending, LAMBDA c : c.name = name)
Waiting(w, name) == SelectInSeq(w.pending, LAMBDA c : c.name = name)

AddResponse(w, p) ==
  LET i == Waiting(w, p.name)
      id == IF i > 0 THEN w.pending[i].id ELSE w.seq + 1
  IN [messages |-> Append(w.messages, [role |-> "tool", id |-> id, nth |-> p.nth]),
      pending |-> IF i > 0 THEN RemoveAt(w.pending, i) ELSE w.pending,
      seq |-> IF i > 0 THEN w.seq ELSE w.seq + 1]

AddPart(w, p) ==
  CASE p.kind = "text" -> AddText(w, p)
    [] p.kind = "call" -> AddCall(w, p)
    [] p.kind = "response" -> AddResponse(w, p)

Wire(contents) ==
  LET after[n \in 0..Len(contents)] ==
        IF n = 0 THEN NoMessages ELSE AddPart(after[n - 1], contents[n])
  IN after[Len(contents)]
BuildRequest(contents) == Wire(contents).messages

(* Every tool message carries the id of the very call it is the result of, *)
(* every call has one tool message, and no text follows one of its kind.   *)
WellFormed(ms) ==
  LET Calls == {j \in DOMAIN ms : ms[j].role = "call"}
      Results == {i \in DOMAIN ms : ms[i].role = "tool"}
  IN /\ \A i \in Results : \E j \in Calls : j < i /\ ms[j].id = ms[i].id /\ ms[j].nth = ms[i].nth
     /\ \A j \in Calls : Cardinality({i \in Results : ms[i].id = ms[j].id}) = 1
     /\ \A i \in DOMAIN ms \ {1} : ms[i].role \in {"user", "model"} => ms[i].role # ms[i - 1].role

=============================================================================
