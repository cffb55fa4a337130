---------------------------- MODULE McpSessions ----------------------------
(***************************************************************************)
(* The MCP front ends of examples/: a profile bundles several MCP servers  *)
(* behind one endpoint.  initialize opens a session on each server and     *)
(* packs the ids into one session id the client carries; tools/list asks   *)
(* the servers and merges their tools under prefixes; tools/call goes to   *)
(* the server that owns the prefix, in its session.                        *)
(*                                                                         *)
(* Three programs do this:                                                 *)
(*   "transit"  mcp-profile-gateway as an Envoy filter: the servers are    *)
(*              asked at once with HTTPCalloutAllSettled;                  *)
(*   "nethttp"  the same gateway over net/http: one server after another;  *)
(*   "router"   mcp-profile-router: initialize is all or nothing, one      *)
(*              server after another, tools/list asks at once.             *)
(* The gateways reach the servers through the catalog router of the next   *)
(* tier.  Servers may be down, and restart without their sessions; the     *)
(* front end may be restarted with another configuration; a client may     *)
(* give up.                                                                *)
(***************************************************************************)
EXTENDS Naturals, Sequences, FiniteSets, FiniteSetsExt, SequencesExt

CONSTANTS
    FrontEnds,   \* which of the three programs
    Clients,
    Profiles,
    Home,        \* the router's only profile
    Servers,     \* numbers, in the order of the server ids
    Configs,     \* the configurations of the front end, one per start:
                 \*   profile |-> the servers it bundles
    Prefix,      \* server |-> its prefix, a number in the order of the prefixes
    Tools,       \* server |-> the tools it has, numbers in the order of their names
    Enabled,     \* server |-> the tools of it the profiles enable
    Checking,    \* servers that answer only in a session they opened
    FreshIds,    \* a restarted server counts its session ids on
    MaxSessions, MaxOutages,
    Workers,     \* Envoy's worker threads
    None

VARIABLES
    frontEnd, version,
    up,          \* server |-> it answers
    opened,      \* server |-> the sessions it has (Backend.sessions)
    counter,     \* server |-> sessionCounter of its process
    outages,
    session,     \* client |-> the session id it was given for a profile, decoded
    direct,      \* client |-> server |-> its session id of the catalog endpoint
    req,         \* client |-> the request being served
    reply,       \* the last answer a client was given
    \* history
    issued,      \* session id of a server |-> the client and the profile it was opened
                 \*   for, no profile at the catalog endpoint
    listed       \* client |-> tools it was shown in its session

front == <<frontEnd, version>>
servers == <<up, opened, counter, outages, issued>>
mcpVars == <<front, servers, session, direct, req, reply, listed>>

profile == Configs[version]
ServersOf(p) == profile[p]

NoId == <<>>                       \* the empty session id
Idle == [method |-> "none", profile |-> None, servers |-> {}, ids |-> NoId,
         tool |-> NoId, answers |-> <<>>]
NoReply == [code |-> "none", client |-> None, profile |-> None, name |-> NoId, ran |-> NoId]
Code(c, code) == [NoReply EXCEPT !.code = code, !.client = c]

McpInit ==
    /\ frontEnd \in FrontEnds /\ version = 1
    /\ up = [s \in Servers |-> TRUE]
    /\ opened = [s \in Servers |-> {}] /\ counter = [s \in Servers |-> 0]
    /\ outages = 0
    /\ session = [c \in Clients |-> None]
    /\ direct = [c \in Clients |-> [s \in Servers |-> NoId]]
    /\ req = [c \in Clients |-> Idle] /\ reply = NoReply
    /\ issued = [i \in Servers \X (1 .. MaxSessions) |-> NoId]
    /\ listed = [c \in Clients |-> {}]

-----------------------------------------------------------------------------
(* Names of tools: prefix.tool.                                             *)

Name(s, t) == <<Prefix[s], t>>

profileToolEnabled(s, t) == t \in Enabled[s]

\* mergeToolsResult: the enabled tools of one server, prefixed.
mergeToolsResult(s) == {Name(s, t) : t \in {u \in Tools[s] : profileToolEnabled(s, u)}}

\* resolveProfileTool: the server the prefix names, or why the call is refused.
resolveProfileTool(p, name) ==
    LET owners == {s \in ServersOf(p) : Prefix[s] = name[1]}
    IN  IF owners = {} THEN [refusal |-> "unknownTool", server |-> 0]
        ELSE LET s == CHOOSE s \in owners : TRUE
             IN  [refusal |-> IF profileToolEnabled(s, name[2]) THEN "" ELSE "disabledTool",
                  server |-> s]

-----------------------------------------------------------------------------
(* The session id the client carries.                                       *)

encodeProfileSession(p, ids) == [profile |-> p, backends |-> ids]

\* The gateway's decoder: a session opened for another profile is refused.
decodeProfileSession(p, id) == id # None /\ id.profile = p

\* The router's: profile names have no @ in them, so that its fields come apart as
\* they were joined.
sessionFromRequest(c) == session[c] # None /\ session[c].profile = Home

BackendsOf(c) == session[c].backends

\* The session id sent to server s, the empty one when the session has none.
IdFor(c, s) == IF s \in DOMAIN req[c].ids THEN req[c].ids[s] ELSE NoId

\* profileCalloutRequests without the session: every server of the profile.
profileCalloutRequestsAll(c, p) ==
    [servers |-> ServersOf(p),
     ids |-> IF session[c] = None THEN NoId ELSE BackendsOf(c)]

\* profileCalloutRequests: the servers of the session that the profile still has, or
\* without a session all of the profile's.
profileCalloutRequests(c, p) ==
    IF session[c] = None THEN [servers |-> ServersOf(p), ids |-> NoId]
    ELSE [servers |-> DOMAIN BackendsOf(c) \cap ServersOf(p), ids |-> BackendsOf(c)]

-----------------------------------------------------------------------------
(* A request arrives.                                                       *)

Free(c) == req[c].method = "none"

\* The bound on the sessions a server opens counts those being opened.
MayInitialize ==
    \A s \in Servers :
        counter[s] + Cardinality({c \in Clients : req[c].method = "initialize"}) < MaxSessions

Answers(c, r) ==
    /\ reply' = r
    /\ UNCHANGED req

Asks(c, m, p, ss, ids, tool) ==
    /\ req' = [req EXCEPT ![c] = [method |-> m, profile |-> p, servers |-> ss,
                                  ids |-> ids, tool |-> tool, answers |-> <<>>]]
    /\ reply' = NoReply

\* A wrong path or key, a body that is no JSON-RPC request, another method.
Malformed(c) == Answers(c, Code(c, "refused"))

Initialize(c, p) ==
    /\ MayInitialize
    /\ Asks(c, "initialize", p, ServersOf(p), NoId, NoId)

\* tools/list of the gateway, in a session or without one.
listProfileTools(c, p) ==
    IF session[c] # None /\ ~decodeProfileSession(p, session[c])
      THEN Answers(c, Code(c, "badSession"))
      ELSE LET r == profileCalloutRequests(c, p)
           IN  Asks(c, "list", p, r.servers, r.ids, NoId)

\* tools/call of the gateway, which refuses a server that is not in the session.
callProfileTool(c, p, name) ==
    IF ~decodeProfileSession(p, session[c])
      THEN Answers(c, Code(c, "badSession"))
      ELSE LET r == resolveProfileTool(p, name)
           IN  IF r.refusal # ""
                 THEN Answers(c, [Code(c, r.refusal) EXCEPT !.name = name])
               ELSE IF r.server \notin DOMAIN BackendsOf(c)
                 THEN Answers(c, [Code(c, "notInSession") EXCEPT !.name = name])
               ELSE Asks(c, "call", p, {r.server}, BackendsOf(c), name)

\* tools/call of the router, which sends such a server the empty session id.
callTool(c, name) ==
    LET r == resolveProfileTool(Home, name)
    IN  IF r.refusal # ""
          THEN Answers(c, [Code(c, r.refusal) EXCEPT !.name = name])
          ELSE Asks(c, "call", Home, {r.server}, BackendsOf(c), name)

Names == UNION {{Name(s, t) : t \in Tools[s]} : s \in Servers}

calloutProfileTransit(c, p) ==
    /\ frontEnd = "transit" /\ p \in DOMAIN profile
    /\ \/ Initialize(c, p)
       \/ listProfileTools(c, p)
       \/ \E n \in Names : callProfileTool(c, p, n)

handleProfileNetHTTP(c, p) ==
    /\ frontEnd = "nethttp" /\ p \in DOMAIN profile
    /\ \/ Initialize(c, p)
       \/ listProfileTools(c, p)
       \/ \E n \in Names : callProfileTool(c, p, n)

\* The router has one profile, and no answer without a session but to initialize.
handleProfile(c, p) ==
    /\ frontEnd = "router" /\ p = Home
    /\ \/ Initialize(c, p)
       \/ /\ ~sessionFromRequest(c)
          /\ Answers(c, Code(c, "badSession"))
       \/ /\ sessionFromRequest(c)
          /\ \/ Asks(c, "list", p, ServersOf(p), BackendsOf(c), NoId)
             \/ \E n \in Names : callTool(c, n)

\* The catalog endpoint /mcp/s/{server} of the gateway hands the client's own session
\* id on, whatever it is.
calloutCatalogServer(c, s, m) ==
    Asks(c, m, None, {s}, [t \in {s} |-> direct[c][s]],
         IF m = "call" THEN Name(s, Min(Tools[s])) ELSE NoId)

\* The router knows the servers of its profile, and answers a request without a
\* session itself.
handleCatalogServer(c, s, m) ==
    /\ s \in ServersOf(Home)
    /\ IF m # "initialize" /\ direct[c][s] = NoId
         THEN Answers(c, Code(c, "badSession"))
         ELSE calloutCatalogServer(c, s, m)

CatalogRequest(c) ==
    \E s \in Servers, m \in {"initialize", "list", "call"} :
        /\ m = "initialize" => MayInitialize
        /\ \/ frontEnd # "router" /\ calloutCatalogServer(c, s, m)
           \/ frontEnd = "router" /\ handleCatalogServer(c, s, m)

Requests(c) ==
    /\ Free(c)
    /\ \/ Malformed(c)
       \/ \E p \in Profiles : \/ calloutProfileTransit(c, p)
                              \/ handleProfileNetHTTP(c, p)
                              \/ handleProfile(c, p)
       \/ CatalogRequest(c)
    /\ UNCHANGED <<front, servers, session, direct, listed>>

-----------------------------------------------------------------------------
(* The servers answer.                                                      *)

\* Backend, which opens a session and looks for it afterwards.
handleMCP(s, m, id) ==
    IF m = "initialize" THEN "opened"
    ELSE IF id \in opened[s] THEN "answered" ELSE "failed"

\* The demo's fakeBackend does not look.
fakeHandleMCP(m) == IF m = "initialize" THEN "opened" ELSE "answered"

\* The catalog router hands the request to the server, or answers for one that is
\* down or does not answer in time.
handleServer(s, m, id) ==
    IF ~up[s] THEN "failed"
    ELSE IF s \in Checking THEN handleMCP(s, m, id)
    ELSE fakeHandleMCP(m)

\* The router's filter serves a request inside the body callback, so it keeps the
\* worker thread until it has answered; the request to the server needs another.
Blocked == frontEnd = "router" /\ Cardinality({c \in Clients : ~Free(c)}) >= Workers

\* What becomes of the request to server s; the timeouts of the callouts and of the
\* HTTP clients end it at the latest.
callServer(c, s) ==
    IF Blocked THEN "failed" ELSE handleServer(s, req[c].method, IdFor(c, s))

createSession(c, s) ==
    /\ counter' = [counter EXCEPT ![s] = @ + 1]
    /\ opened' = [opened EXCEPT ![s] = @ \cup {<<s, counter'[s]>>}]
    /\ issued' = [issued EXCEPT ![<<s, counter'[s]>>] = <<c, req[c].profile>>]
    /\ UNCHANGED <<up, outages>>

\* One after another, or in any order.
Sequential(c) ==
    \/ frontEnd = "nethttp"
    \/ frontEnd = "router" /\ req[c].method = "initialize"

Turn(c, s) ==
    /\ s \in req[c].servers
    /\ Sequential(c) => s = Min(req[c].servers)

Answer(c, s, result) ==
    [server |-> s, result |-> result,
     id |-> IF result = "opened" THEN <<s, counter'[s]>> ELSE IdFor(c, s)]

\* A server that failed is asked again.
SettledRetrying(c, s, result) ==
    req' = IF result = "failed" THEN req
           ELSE [req EXCEPT ![c].servers = @ \ {s},
                            ![c].answers = Append(@, Answer(c, s, result))]

\* The first server that fails ends the router's initialize.
Settled(c, s, result) ==
    LET stops == frontEnd = "router" /\ req[c].method = "initialize" /\ result = "failed"
    IN  req' = [req EXCEPT ![c].servers = IF stops THEN {} ELSE @ \ {s},
                           ![c].answers = Append(@, Answer(c, s, result))]

ServerAnswers(c, s) ==
    /\ Turn(c, s)
    /\ LET result == callServer(c, s)
       IN  /\ IF result = "opened" THEN createSession(c, s) ELSE UNCHANGED servers
           /\ Settled(c, s, result)
    /\ UNCHANGED <<front, session, direct, reply, listed>>

\* The process of server s is gone, and back with no sessions.  Backend numbers its
\* sessions from one again, fakeBackend takes the time.
ServerDown(s) ==
    /\ up[s] /\ outages < MaxOutages
    /\ up' = [up EXCEPT ![s] = FALSE] /\ outages' = outages + 1
    /\ opened' = [opened EXCEPT ![s] = {}]
    /\ counter' = IF FreshIds \/ s \notin Checking THEN counter
                  ELSE [counter EXCEPT ![s] = 0]
    /\ UNCHANGED <<front, session, direct, req, reply, issued, listed>>

ServerUp(s) ==
    /\ ~up[s]
    /\ up' = [up EXCEPT ![s] = TRUE]
    /\ UNCHANGED <<front, opened, counter, outages, issued, session, direct, req,
                   reply, listed>>

-----------------------------------------------------------------------------
(* The front end puts the answers together.                                 *)

Failed(a) == a.result = "failed"
Good(c) == {a \in ToSet(req[c].answers) : ~Failed(a)}

\* The answers as they came.
ResponsesAsTheyCame(c) == req[c].answers

\* The responses of HTTPCalloutAllSettled are in the order of the requests.
Responses(c) == SortSeq(req[c].answers, LAMBDA a, b : a.server < b.server)

\* serverIDs, in the order of the requests.
ServerIDs(c) == SetToSortSeq({a.server : a \in ToSet(req[c].answers)}, <)

\* A session with the ids in it, or the error when there are none.
Grants(c, ids) ==
    IF ids = NoId
      THEN /\ reply' = Code(c, "initializeFailed")
           /\ UNCHANGED <<session, listed>>
      ELSE /\ reply' = Code(c, "ok")
           /\ session' = [session EXCEPT ![c] = encodeProfileSession(req[c].profile, ids)]
           /\ listed' = [listed EXCEPT ![c] = {}]

\* backends[serverIDs[i]] of the responses that opened a session.
initializeProfileTransit(c) ==
    LET rs == Responses(c)
        ss == ServerIDs(c)
        Index(s) == CHOOSE i \in DOMAIN ss : ss[i] = s
    IN  /\ frontEnd = "transit"
        /\ Grants(c, [s \in {ss[i] : i \in {j \in DOMAIN rs : ~Failed(rs[j])}} |->
                         rs[Index(s)].id])

\* What each round of the loop added.
initializeProfileNetHTTP(c) ==
    /\ frontEnd = "nethttp"
    /\ Grants(c, [s \in {a.server : a \in Good(c)} |->
                     (CHOOSE a \in Good(c) : a.server = s).id])

\* The router hands out a session for all of the servers or none.
initializeBackends(c) ==
    /\ frontEnd = "router"
    /\ Grants(c, IF \E a \in ToSet(req[c].answers) : Failed(a) THEN NoId
                 ELSE [s \in {a.server : a \in Good(c)} |->
                         (CHOOSE a \in Good(c) : a.server = s).id])

\* The merged tools of the servers ss.  Only what is shown in a session counts.
Shows(c, ss) ==
    /\ reply' = Code(c, "ok")
    /\ listed' = IF session[c] = None THEN listed
                 ELSE [listed EXCEPT ![c] = @ \cup UNION {mergeToolsResult(s) : s \in ss}]
    /\ UNCHANGED session

listProfileToolsTransit(c) ==
    LET rs == Responses(c)
    IN  /\ frontEnd = "transit"
        /\ Shows(c, {ServerIDs(c)[i] : i \in {j \in DOMAIN rs : ~Failed(rs[j])}})

listProfileToolsNetHTTP(c) ==
    /\ frontEnd = "nethttp"
    /\ Shows(c, {a.server : a \in Good(c)})

\* The router reports an error when no server answered.
listTools(c) ==
    /\ frontEnd = "router"
    /\ \/ Good(c) # {} /\ Shows(c, {a.server : a \in Good(c)})
       \/ /\ Good(c) = {}
          /\ reply' = Code(c, "noServers")
          /\ UNCHANGED <<session, listed>>

\* The server's answer to a call is handed back.
CallDone(c) ==
    LET a == req[c].answers[1]
    IN  /\ reply' = IF Failed(a) THEN Code(c, "backendFailed")
                    ELSE [Code(c, "ok") EXCEPT !.name = req[c].tool,
                                               !.profile = req[c].profile,
                                               !.ran = <<a.server, req[c].tool[2], a.id>>]
        /\ UNCHANGED <<session, listed>>

\* The answer to a profile request, when no server is left to wait for.
ProfileDone(c) ==
    /\ ~Free(c) /\ req[c].servers = {} /\ req[c].profile # None
    /\ \/ /\ req[c].method = "initialize"
          /\ \/ initializeProfileTransit(c)
             \/ initializeProfileNetHTTP(c)
             \/ initializeBackends(c)
       \/ /\ req[c].method = "list"
          /\ \/ listProfileToolsTransit(c)
             \/ listProfileToolsNetHTTP(c)
             \/ listTools(c)
       \/ req[c].method = "call" /\ CallDone(c)
    /\ req' = [req EXCEPT ![c] = Idle]
    /\ UNCHANGED <<front, servers, direct>>

\* The answer of a catalog server is handed back as it is.
CatalogDone(c) ==
    /\ ~Free(c) /\ req[c].servers = {} /\ req[c].profile = None
    /\ LET a == req[c].answers[1]
       IN  /\ direct' = IF a.result = "opened" THEN [direct EXCEPT ![c][a.server] = a.id]
                        ELSE direct
           /\ reply' = IF Failed(a) THEN Code(c, "backendFailed")
                       ELSE IF req[c].method # "call" THEN Code(c, "ok")
                       ELSE [Code(c, "ok") EXCEPT !.name = req[c].tool,
                                                  !.ran = <<a.server, req[c].tool[2], a.id>>]
    /\ req' = [req EXCEPT ![c] = Idle]
    /\ UNCHANGED <<front, servers, session, listed>>

\* The client goes away; its answers are dropped.
GivesUp(c) ==
    /\ ~Free(c)
    /\ req' = [req EXCEPT ![c] = Idle]
    /\ UNCHANGED <<front, servers, session, direct, reply, listed>>

\* The front end is started again with the next configuration.
Reload ==
    /\ version < Len(Configs)
    /\ version' = version + 1
    /\ req' = [c \in Clients |-> Idle]
    /\ listed' = [c \in Clients |-> {}]
    /\ UNCHANGED <<frontEnd, servers, session, direct, reply>>

-----------------------------------------------------------------------------
Serves(c) == (\E s \in Servers : ServerAnswers(c, s)) \/ ProfileDone(c) \/ CatalogDone(c)

McpNext ==
    \/ \E c \in Clients : Requests(c) \/ Serves(c) \/ GivesUp(c)
    \/ \E s \in Servers : ServerDown(s) \/ ServerUp(s)
    \/ Reload

\* Every callout and every call of the HTTP client ends, by an answer or its timeout.
McpSpec == McpInit /\ [][McpNext]_mcpVars /\ \A c \in Clients : WF_mcpVars(Serves(c))

-----------------------------------------------------------------------------
(* Properties.                                                              *)

\* A tool call that succeeds has run the named tool on the server that owns its
\* prefix, and if in a session, in one that server opened for this client and this
\* profile: the ids packed by initialize are not mixed up, whatever order the answers
\* came in, which servers failed, and what was reconfigured since.
RanInOwnSession ==
    LET ran == reply.ran
    IN  ran # NoId => /\ Name(ran[1], ran[2]) = reply.name
                      /\ ran[3] # NoId => /\ ran[3][1] = ran[1]
                                          /\ issued[ran[3]] = <<reply.client, reply.profile>>

\* What tools/list shows in a session can be called in it: the call is not refused
\* as unknown, disabled or of a server outside the session, unless the front end has
\* been started with another configuration since.
ListedIsCallable ==
    reply.code \in {"unknownTool", "disabledTool", "notInSession"} =>
        reply.name \notin listed[reply.client]

\* Every request is answered, or its client or the front end is gone, although
\* servers stay down.
RequestSettles == \A c \in Clients : ~Free(c) ~> Free(c)

\* Backends fail a request only while they are down or have lost the session.  Does
\* not hold for the router's filter when every worker thread is inside its callback.
WorkersNotStarved ==
    [][\A c \in Clients :
          Len(req'[c].answers) = Len(req[c].answers) + 1 =>
            LET a == Last(req'[c].answers)
            IN  a.result = "failed" => ~up[a.server] \/ req[c].method # "initialize"]_mcpVars
=============================================================================
