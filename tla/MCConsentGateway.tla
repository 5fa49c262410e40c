-------------------------- MODULE MCConsentGateway --------------------------
(***************************************************************************)
(* Small instances of ConsentGateway for TLC.                              *)
(***************************************************************************)
EXTENDS ConsentGateway, TLC

\* One process serves an investigation that asks for a grant and reads a
\* payload under it, in two authorize calls, finding it, nothing, or the item
\* of another session, and a call of a second session, which was granted
\* nothing.
OneServer == {"mcp1"}
AuthorityCalls == {"ask", "read", "other"}
AuthorityServerOf == [c \in AuthorityCalls |-> "mcp1"]
AuthoritySessions == "ask" :> "s1" @@ "read" :> "s1" @@ "other" :> "s2"
AuthorityNeeds == "ask" :> <<>> @@ "read" :> <<{"trace"}, {"payload"}>> @@ "other" :> <<{"trace"}>>
AuthorityLoads == [c \in AuthorityCalls |-> {"found", "error", "foreign"}]
AuthorityAsks == "ask" :> "g1" @@ "read" :> NoGrant @@ "other" :> NoGrant
OneGrant == {"g1"}
OneGrantScopes == "g1" :> {"trace", "payload"}
OneGrantSession == "g1" :> "s1"

\* A request, and the commands that race for its grant.
RequestCalls == {"ask"}
RequestServerOf == [c \in RequestCalls |-> "mcp1"]
RequestSessions == [c \in RequestCalls |-> "s1"]
RequestNeeds == [c \in RequestCalls |-> <<>>]
RequestLoads == [c \in RequestCalls |-> {"found"}]
RequestAsks == [c \in RequestCalls |-> "g1"]

\* Two processes serve the same session, which needs no grant.
TwoServers == {"mcp1", "mcp2"}
TwoServerCalls == {"read1", "read2"}
TwoServerOf == "read1" :> "mcp1" @@ "read2" :> "mcp2"
TwoServerSessions == [c \in TwoServerCalls |-> "s1"]
TwoServerNeeds == [c \in TwoServerCalls |-> <<{"trace"}>>]
TwoServerLoads == [c \in TwoServerCalls |-> {"found"}]
TwoServerAsks == [c \in TwoServerCalls |-> NoGrant]
NoGrants == {}
TraceScope == {"trace"}
NoScopes == {}

CommandSymmetry == Permutations(Commands)

=============================================================================
