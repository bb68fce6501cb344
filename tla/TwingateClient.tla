---------------------------- MODULE TwingateClient ----------------------------
(***************************************************************************)
(* twingate/client.py: a mutation of the tenant is an HTTP POST, retried   *)
(* after a transport error, a 429 or a 5xx until max_retries attempts are  *)
(* made.  No mutation carries an idempotency key, so a request whose       *)
(* answer is lost may have taken effect, may do so later, or never, and    *)
(* the next attempt meets whatever it left behind.                         *)
(*                                                                         *)
(* fresh is the set of ids the tenant may give to a new Connector.         *)
(***************************************************************************)
EXTENDS Failures

CONSTANT MaxRetries   \* max_retries of the client

ASSUME RetriesAssumption == MaxRetries \in Nat \ {0}

VARIABLES
  tenant,   \* logical Connectors
  tw,       \* the mutation in progress
  twLate    \* requests given up by the client that the tenant may still execute

twVars == <<tenant, tw, twLate>>

Mutation == {"create", "tokens", "delete"}

NoRequest == [op |-> "none", conn |-> NoCid, attempt |-> 0, outcome |-> "none"]

TwInit ==
  /\ tenant = {}
  /\ tw = NoRequest
  /\ twLate = {}

TwPending == tw.outcome = "pending"

\* create_connector, generate_tokens or delete_connector is called.
Request(op, c) ==
  tw' = [op |-> op, conn |-> c, attempt |-> 0, outcome |-> "pending"]

\* The tenant executes a mutation.
Execute(op, c, fresh) ==
  \/ op = "create" /\ \E n \in fresh : tenant' = tenant \cup {n}
  \/ op = "tokens" /\ UNCHANGED tenant
  \/ op = "delete" /\ tenant' = tenant \ {c}

\* A 2xx answer with ok = true.
PostSucceeds(fresh) ==
  /\ TwPending
  /\ \/ /\ tw.op = "create"
        /\ \E n \in fresh : /\ tenant' = tenant \cup {n}
                            /\ tw' = [tw EXCEPT !.conn = n, !.outcome = "ok"]
     \/ /\ tw.op \in {"tokens", "delete"}
        /\ tw.conn \in tenant
        /\ Execute(tw.op, tw.conn, fresh)
        /\ tw' = [tw EXCEPT !.outcome = "ok"]
  /\ UNCHANGED <<twLate, faults>>

\* ok = false: there is no such Connector, or (a bound of the model) no id is
\* left for a new one.  _check_mutation raises.
PostRefused(fresh) ==
  /\ TwPending
  /\ IF tw.op = "create" THEN fresh = {} ELSE tw.conn \notin tenant
  /\ tw' = [tw EXCEPT !.outcome = "failed"]
  /\ UNCHANGED <<tenant, twLate, faults>>

\* What becomes of a request without an answer: it was never received, it was
\* executed, or it will be.
Unanswered(fresh) ==
  \/ UNCHANGED <<tenant, twLate>>
  \/ Execute(tw.op, tw.conn, fresh) /\ UNCHANGED twLate
  \/ twLate' = twLate \cup {[op |-> tw.op, conn |-> tw.conn]} /\ UNCHANGED tenant

\* Transport error, 429 or 5xx: another attempt after a backoff, unless this
\* was the last.
PostUnanswered(fresh) ==
  /\ TwPending
  /\ Mishap
  /\ Unanswered(fresh)
  /\ tw' = IF tw.attempt + 1 < MaxRetries THEN [tw EXCEPT !.attempt = @ + 1]
                                          ELSE [tw EXCEPT !.outcome = "failed"]

\* Another 4xx, a GraphQL error, or a body that cannot be read though the
\* mutation was executed: no retry.
PostRejected(fresh) ==
  /\ TwPending
  /\ Mishap
  /\ Execute(tw.op, tw.conn, fresh) \/ UNCHANGED tenant
  /\ tw' = [tw EXCEPT !.outcome = "failed"]
  /\ UNCHANGED twLate

\* A request the client has given up is executed after all.
LateRequest(fresh) ==
  /\ \E r \in twLate : /\ Execute(r.op, r.conn, fresh)
                       /\ twLate' = twLate \ {r}
  /\ UNCHANGED <<tw, faults>>

TwStep(fresh) ==
  PostSucceeds(fresh) \/ PostRefused(fresh) \/ PostUnanswered(fresh) \/ PostRejected(fresh)
=============================================================================
