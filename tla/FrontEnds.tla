------------------------------ MODULE FrontEnds ------------------------------
(***************************************************************************)
(* The two ways in: the REST routes and the MCP tools (mortis-server,      *)
(* rest.rs, mcp.rs, auth.rs, error.rs).  A request is a record of an       *)
(* operation and its arguments, those it leaves out being Missing; a front *)
(* end turns it into one call of the services, or refuses it.              *)
(***************************************************************************)
EXTENDS Integers, Sequences, SequencesExt

CONSTANT Missing

ASSUME MissingIsNoName == Missing \notin {"smart", "sensitive", "insensitive"}

Call(service, args) == [service |-> service, args |-> args]
Refused             == [service |-> "none", args |-> <<>>]

(* authenticate compares every token, so the last entry that matches wins. *)
Authenticate(tokens, presented) ==
    LET found == SelectSeq(tokens, LAMBDA t : t.token = presented)
    IN  IF found = <<>> THEN Missing ELSE found[Len(found)].principal

RevFromOpt(rev) == IF rev \in {Missing, "", "HEAD"} THEN "head" ELSE rev

(* line_range: no bound is the whole file, a missing start is line 1.      *)
LineBounds(start, end) ==
    IF start = Missing /\ end = Missing THEN "whole"
    ELSE <<IF start = Missing THEN 1 ELSE start, end>>

(* parse_u64 and parse_u64_arg: decimal, or hexadecimal after 0x.          *)
ParseU64(text) == IF text.digits = "ok" THEN text.value ELSE Missing

CaseNames == {"smart", "sensitive", "insensitive"}
CaseMode(name) == IF name \in {"sensitive", "insensitive"} THEN name ELSE "smart"

EditOf(req) ==
    CASE req.diff # Missing /\ req.edits = Missing -> <<"unified_diff", req.diff>>
      [] req.diff = Missing /\ req.edits # Missing -> <<"search_replace", req.edits>>
      [] OTHER -> Missing
-----------------------------------------------------------------------------
(* REST: the routes of repositories, search, sessions and assembly         *)
(* sessions.  A route that needs a principal gets the one of the request.  *)
RestRepo(req) ==
    CASE req.op = "list_repos" -> Call("list_repos", <<>>)
      [] req.op = "sync_repo"  -> Call("sync_repo", <<req.repo>>)
      [] req.op = "blame_file" ->
           Call("blame", <<req.repo, req.path, RevFromOpt(req.rev)>>)
      [] req.op = "get_history" ->
           Call("history", <<req.repo, req.path, req.limit, req.skip>>)

RestReadRepoFile(req) ==
    Call("read_repo_file",
         <<req.repo, req.path, RevFromOpt(req.rev), LineBounds(req.start, req.end)>>)

RestReadSessionFile(principal, req) ==
    Call("read_session_file",
         <<principal, req.session, req.path, LineBounds(req.start, req.end)>>)

RestSearch(principal, req) ==
    LET case == IF req.case = Missing THEN "smart" ELSE req.case
    IN  IF case \notin CaseNames THEN Refused
        ELSE IF req.session # Missing
          THEN Call("search_session", <<principal, req.session, case>>)
        ELSE IF req.repo # Missing THEN Call("search_repo", <<req.repo, case>>)
        ELSE Call("search_all", <<case>>)

RestSession(principal, req) ==
    CASE req.op = "create_session" -> Call(req.op, <<principal, req.repo>>)
      [] req.op = "list_sessions"  -> Call(req.op, <<principal>>)
      [] req.op \in {"delete_session", "session_status", "export_patch"} ->
           Call(req.op, <<principal, req.session>>)
      [] req.op \in {"write_file", "delete_file", "session_diff"} ->
           Call(req.op, <<principal, req.session, req.path>>)

RestEdit(principal, req) ==
    IF EditOf(req) = Missing THEN Refused
    ELSE Call("edit_file", <<principal, req.session, req.path, EditOf(req)>>)

RestAsm(principal, req) ==
    CASE req.op = "create_asm_session" -> Call(req.op, <<principal, req.url>>)
      [] req.op = "list_asm_sessions"  -> Call(req.op, <<principal>>)
      [] req.op \in {"get_asm_session", "delete_asm_session", "asm_metadata"} ->
           Call(req.op, <<principal, req.asm>>)
      [] req.op \in {"asm_disassemble", "asm_resolve_function"} ->
           IF ParseU64(req.address) = Missing THEN Refused
           ELSE Call(req.op, <<principal, req.asm, ParseU64(req.address), req.len>>)
-----------------------------------------------------------------------------
(* MCP: the tools.  Those that need a principal take it from the request   *)
(* the middleware let through.                                             *)
McpRepo(req) ==
    CASE req.op = "list_repos" -> Call("list_repos", <<>>)
      [] req.op = "sync_repo"  -> Call("sync_repo", <<req.repo>>)
      [] req.op = "blame_file" ->
           Call("blame", <<req.repo, req.path, RevFromOpt(req.rev)>>)
      [] req.op = "get_history" ->
           Call("history", <<req.repo, req.path, req.limit, req.skip>>)

\* Mutant: the repository goes before the session.
McpSearchRepoFirst(principal, req) ==
    LET case == CaseMode(req.case)
    IN  IF req.repo # Missing THEN Call("search_repo", <<req.repo, case>>)
        ELSE IF req.session # Missing
          THEN Call("search_session", <<principal, req.session, case>>)
        ELSE Call("search_all", <<case>>)

McpSearch(principal, req) ==
    LET case == CaseMode(req.case)
    IN  IF req.session # Missing
          THEN Call("search_session", <<principal, req.session, case>>)
        ELSE IF req.repo # Missing THEN Call("search_repo", <<req.repo, case>>)
        ELSE Call("search_all", <<case>>)

McpReadFile(principal, req) ==
    LET range == LineBounds(req.start, req.end)
    IN  IF req.session # Missing
          THEN Call("read_session_file", <<principal, req.session, req.path, range>>)
        ELSE IF req.repo = Missing THEN Refused
        ELSE Call("read_repo_file", <<req.repo, req.path, RevFromOpt(req.rev), range>>)

McpSession(principal, req) ==
    CASE req.op = "create_session" -> Call(req.op, <<principal, req.repo>>)
      [] req.op = "list_sessions"  -> Call(req.op, <<principal>>)
      [] req.op \in {"delete_session", "session_status", "export_patch"} ->
           Call(req.op, <<principal, req.session>>)
      [] req.op \in {"write_file", "delete_file", "session_diff"} ->
           Call(req.op, <<principal, req.session, req.path>>)

McpEdit(principal, req) ==
    IF EditOf(req) = Missing THEN Refused
    ELSE Call("edit_file", <<principal, req.session, req.path, EditOf(req)>>)

McpAsm(principal, req) ==
    CASE req.op = "create_asm_session" -> Call(req.op, <<principal, req.url>>)
      [] req.op = "list_asm_sessions"  -> Call(req.op, <<principal>>)
      [] req.op \in {"get_asm_session", "delete_asm_session", "asm_metadata"} ->
           Call(req.op, <<principal, req.asm>>)
      [] req.op \in {"asm_disassemble", "asm_resolve_function"} ->
           IF ParseU64(req.address) = Missing THEN Refused
           ELSE Call(req.op, <<principal, req.asm, ParseU64(req.address), req.len>>)
-----------------------------------------------------------------------------
RepoOps    == {"list_repos", "sync_repo", "blame_file", "get_history"}
AsmOps     == {"create_asm_session", "list_asm_sessions", "get_asm_session",
               "delete_asm_session", "asm_metadata", "asm_disassemble",
               "asm_resolve_function"}
SessionOps == {"create_session", "list_sessions", "delete_session",
               "session_status", "export_patch", "write_file", "delete_file",
               "session_diff"}

Operations == RepoOps \union AsmOps \union SessionOps
                \union {"search_code", "edit_file", "read_file"}

(* A request: an operation, and the arguments any of them may take.        *)
Request ==
    LET Optional(S) == S \union {Missing}
        Text   == Optional(STRING)
        Number == Optional(Nat)
    IN  [op : Operations, repo : Text, session : Text, path : Text, rev : Text,
         start : Number, end : Number, limit : Number, skip : Number,
         case : Text, diff : Text, edits : Text, url : Text, asm : Text,
         address : [digits : {"ok", "bad"}, value : Nat], len : Number]

(* The router: a file is read from the route of its session or of its      *)
(* repository, so that a request that names neither has no route.  Reading *)
(* a session's own record has a route and no tool, and is left out.        *)
RestRoute(principal, req) ==
    CASE req.op \in RepoOps    -> RestRepo(req)
      [] req.op \in SessionOps -> RestSession(principal, req)
      [] req.op \in AsmOps     -> RestAsm(principal, req)
      [] req.op = "search_code" -> RestSearch(principal, req)
      [] req.op = "edit_file"  -> RestEdit(principal, req)
      [] req.op = "read_file"  ->
           IF req.session # Missing THEN RestReadSessionFile(principal, req)
           ELSE IF req.repo # Missing THEN RestReadRepoFile(req)
           ELSE Refused

McpTool(principal, req) ==
    CASE req.op \in RepoOps    -> McpRepo(req)
      [] req.op \in SessionOps -> McpSession(principal, req)
      [] req.op \in AsmOps     -> McpAsm(principal, req)
      [] req.op = "search_code" -> McpSearch(principal, req)
      [] req.op = "edit_file"  -> McpEdit(principal, req)
      [] req.op = "read_file"  -> McpReadFile(principal, req)

(* require_bearer stands before both.                                      *)
RequireBearer(tokens, presented, call) ==
    IF Authenticate(tokens, presented) = Missing THEN Refused ELSE call

(* ApiError::into_response and to_mcp_error: who is told to be at fault.   *)
HttpStatus(error) ==
    CASE error = "not_found"     -> 404
      [] error = "invalid_input" -> 400
      [] error = "unauthorized"  -> 401
      [] error = "forbidden"     -> 403
      [] error = "conflict"      -> 409
      [] OTHER                   -> 500

ToMcpError(error) ==
    IF error \in {"invalid_input", "not_found", "forbidden"}
      THEN "invalid_params" ELSE "internal_error"
-----------------------------------------------------------------------------
(* An agent and a program get the same service: whatever a request leaves  *)
(* out, both front ends make the same call of it, for the same principal,  *)
(* or both refuse it.  Of the requests both take they differ only on a     *)
(* search whose case mode has no such name, refused by REST and taken for  *)
(* smart case by MCP.                                                      *)
FrontsAgree(tokens, presented, req) ==
    LET principal == Authenticate(tokens, presented)
        rest == RequireBearer(tokens, presented, RestRoute(principal, req))
        mcp  == RequireBearer(tokens, presented, McpTool(principal, req))
        misnamed == req.op = "search_code" /\ req.case \notin CaseNames \union {Missing}
    IN  IF principal # Missing /\ misnamed
          THEN rest = Refused /\ mcp = McpTool(principal, [req EXCEPT !.case = "smart"])
          ELSE rest = mcp

(* What is the caller's fault over REST is the caller's fault over MCP,    *)
(* except for a conflict and for a missing token.                          *)
FaultsAgree(error) ==
    error \notin {"conflict", "unauthorized"} =>
       (HttpStatus(error) < 500 <=> ToMcpError(error) = "invalid_params")
=============================================================================
