----------------------------- MODULE MCBackend ------------------------------
(***************************************************************************)
(* Three parts of the backend that share no state, each explored alone     *)
(* from its own initial states: logins, onboarding questions, and the      *)
(* server's tasks.  A behaviour moves one part and leaves the others as    *)
(* they began.  Onboarding is extended, the other two are instantiated.    *)
(***************************************************************************)
EXTENDS Onboarding, Sequences

CONSTANTS
  MaxFlows, Conn, MaxRequests,
  MaxLines, Session

VARIABLES
  part,
  table, old, task, outcome, result, conn, req, spent, store, saved,
  sent, closed, read, lineTask, queue, writer, written, broken, server,
  gathered, emitted, entered

login == <<table, old, task, outcome, result, conn, req, spent, store, saved>>
server_ == <<sent, closed, read, lineTask, queue, writer, written, broken, server,
             gathered, emitted, entered>>
allVars == <<part, login, vars, server_>>

\* The bound on the lines is a number.
ASSUME LineBound == MaxLines \in Nat

L == INSTANCE Login
R == INSTANCE RpcServer WITH task <- lineTask

MCInit == /\ part \in {"login", "onboarding", "server"}
          /\ L!Init /\ Init /\ R!Init

MCNext ==
  \/ part = "login" /\ L!Next /\ UNCHANGED <<part, vars, server_>>
  \/ part = "onboarding" /\ Next /\ UNCHANGED <<part, login, server_>>
  \/ part = "server" /\ R!Next /\ UNCHANGED <<part, login, vars>>

MCSpec == MCInit /\ [][MCNext]_allVars /\ L!Fairness /\ Fairness /\ R!Fairness

\* A login reported as done has its credentials in oauth.json (rpc/handlers/auth.py).
LoginIsStored == L!LoginIsStored
\* Callbacks belong to the current flow, and waiters are answered (auth.py).
LoginsEnd == L!LoginsEnd
\* The output is in order, without gaps, to the end (rpc/stdio.py, the writer).
OutputWhole == R!OutputWhole
\* After the end of the input the server ends, unless a question is open (stdio.py).
ServerStops == R!ServerStops
=============================================================================
