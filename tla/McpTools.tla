------------------------------ MODULE McpTools ------------------------------
(***************************************************************************)
(* The external MCP tools of one run: what is mounted of what the servers  *)
(* offer, what the model sees of it, and what its calls reach.             *)
(*                                                                         *)
(* A server offers raw names.  The configuration admits some of them; each *)
(* is mounted under its server and a normalized name, and two that would   *)
(* share one fail the mount.  A large inventory is deferred: a tool of it  *)
(* is visible once mcp_search has returned it.  A call of a tool may have  *)
(* to be approved, each time or once.                                      *)
(***************************************************************************)
EXTENDS Naturals, FiniteSets

CONSTANTS
  Server,     \* ids of the enabled servers
  Raw,        \* raw tool names
  Named,      \* [Raw -> names]: the normalization of a raw name
  Threshold,  \* DIRECT_MCP_TOOL_EXPOSURE_THRESHOLD
  SearchMax,  \* matches a search returns at most
  Call        \* ids of tool calls

VARIABLES
  offered,    \* [Server -> SUBSET Raw]: what list_tools returned
  admitted,   \* [Server -> SUBSET Raw]: what enabled_tools and disabled_tools leave
  mode,       \* [raw tool -> "auto", "prompt", "approve"]: tools[raw] or the server's default
  mounted,    \* model names <<server, name>> and their raw tools; "no", "failed"
  active,     \* deferred tools the searches returned
  approved,   \* names approved for the rest of the runtime
  call,       \* [Call -> [tool, at]]: where each call stands
  answers     \* [Call -> "none", "yes", "no"]: what the user answered
vars == <<offered, admitted, mode, mounted, active, approved, call, answers>>
fixed == <<offered, admitted, mode>>

NoTool == <<"none", "none">>
Name(raw) == <<raw[1], Named[raw[2]]>>

Candidates == {raw \in Server \X Raw : raw[2] \in offered[raw[1]] \cap admitted[raw[1]]}

-----------------------------------------------------------------------------
\* Slip: a name that is taken already keeps its first tool.
MountFirst ==
  /\ mounted.state = "no"
  /\ mounted' = [state |-> "up",
                 tools |-> [n \in {Name(raw) : raw \in Candidates} |->
                              CHOOSE raw \in Candidates : Name(raw) = n]]
  /\ UNCHANGED <<fixed, active, approved, call, answers>>

\* Every admitted tool gets its name, and no two the same.
Mount ==
  /\ mounted.state = "no"
  /\ mounted' =
       IF \E r, s \in Candidates : r # s /\ Name(r) = Name(s)
       THEN [state |-> "failed", tools |-> <<>>]
       ELSE [state |-> "up",
             tools |-> [n \in {Name(raw) : raw \in Candidates} |->
                          CHOOSE raw \in Candidates : Name(raw) = n]]
  /\ UNCHANGED <<fixed, active, approved, call, answers>>

Tools == DOMAIN mounted.tools
Direct == IF Cardinality(Tools) <= Threshold THEN Tools ELSE {}
Deferred == Tools \ Direct

\* What a request to the model offers it.
Visible == Direct \cup active

\* mcp_search is offered when something is deferred.
Search ==
  /\ mounted.state = "up" /\ Deferred # {}
  /\ \E found \in SUBSET Tools :
       /\ Cardinality(found) <= SearchMax
       /\ active' = active \cup (found \cap Deferred)
  /\ UNCHANGED <<fixed, mounted, approved, call, answers>>

-----------------------------------------------------------------------------
Mode(tool) == mode[mounted.tools[tool]]

NeedsAnswer(tool) ==
  \/ Mode(tool) = "prompt"
  \/ Mode(tool) = "approve" /\ tool \notin approved

\* The model calls a tool it sees; several calls may be open.
Request(c, tool) ==
  /\ mounted.state = "up" /\ call[c].at = "unused" /\ tool \in Visible
  /\ call' = [call EXCEPT ![c] =
       [tool |-> tool, at |-> IF NeedsAnswer(tool) THEN "asking" ELSE "calling"]]
  /\ UNCHANGED <<fixed, mounted, active, approved, answers>>

\* A denied call returns a result that says so and was never made.
Answer(c, yes) ==
  /\ call[c].at = "asking"
  /\ answers' = [answers EXCEPT ![c] = IF yes THEN "yes" ELSE "no"]
  /\ call' = [call EXCEPT ![c].at = IF yes THEN "calling" ELSE "denied"]
  /\ approved' = IF yes /\ Mode(call[c].tool) = "approve"
                 THEN approved \cup {call[c].tool} ELSE approved
  /\ UNCHANGED <<fixed, mounted, active>>

\* The server is called by the raw name; a failure is a result as well.
Return(c) ==
  /\ call[c].at = "calling"
  /\ \E outcome \in {"done", "failed"} : call' = [call EXCEPT ![c].at = outcome]
  /\ UNCHANGED <<fixed, mounted, active, approved, answers>>

-----------------------------------------------------------------------------
Init ==
  /\ offered \in [Server -> SUBSET Raw] /\ admitted \in [Server -> SUBSET Raw]
  /\ \A s \in Server : offered[s] # {} /\ admitted[s] # {}
  /\ mode \in [Server \X Raw -> {"auto", "prompt", "approve"}]
  /\ mounted = [state |-> "no", tools |-> <<>>] /\ active = {} /\ approved = {}
  /\ call = [c \in Call |-> [tool |-> NoTool, at |-> "unused"]]
  /\ answers = [c \in Call |-> "none"]

Next ==
  \/ Mount \/ Search
  \/ \E c \in Call :
       \/ Return(c)
       \/ \E tool \in Tools : Request(c, tool)
       \/ \E yes \in BOOLEAN : Answer(c, yes)

Spec == Init /\ [][Next]_vars

-----------------------------------------------------------------------------
Made(c) == call[c].at \in {"calling", "done", "failed"}

(* A call reaches the one tool its name can mean: no other tool that the   *)
(* server offers and the configuration admits goes by that name            *)
(* (_server_definition_from_config, McpManager.get_tool).                  *)
CallReachesItsTool ==
  \A c \in Call : Made(c) =>
    LET raw == mounted.tools[call[c].tool] IN
    /\ raw \in Candidates
    /\ \A other \in Candidates : Name(other) = call[c].tool => other = raw

(* A tool that has to be approved is called only with the user's consent:  *)
(* its own, or for the mode approve that of an earlier call of this tool   *)
(* (_ensure_approved); and a deferred one only after a search found it.    *)
NoCallWithoutConsent ==
  \A c \in Call : Made(c) =>
    /\ Mode(call[c].tool) = "prompt" => answers[c] = "yes"
    /\ Mode(call[c].tool) = "approve" =>
         \E d \in Call : call[d].tool = call[c].tool /\ answers[d] = "yes"
    /\ call[c].tool \in Deferred => call[c].tool \in active

\* What the model calls is what the user allowed, by the name it was told.
CallsAllowed == CallReachesItsTool /\ NoCallWithoutConsent
=============================================================================
