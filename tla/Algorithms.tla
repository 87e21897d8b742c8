----------------------------- MODULE Algorithms -----------------------------
(***************************************************************************)
(* The functions the server computes with, each on every input of a        *)
(* bounded set: a behaviour is one question, and an invariant states what  *)
(* the answer has to be.  "kind" says whose input it is.                   *)
(***************************************************************************)
EXTENDS Slices, SearchText, EditText, VcsReads, Binaries, FrontEnds

CONSTANTS PageInputs, CutInputs, SearchInputs, EditInputs, SessionInputs,
          HistoryInputs, SyncInputs, BlameInputs, CodeInputs, SymbolInputs, RequestInputs, ErrorInputs

(* What the inputs are.                                                    *)
ASSUME InputKinds ==
    LET OfKind(S, kind) == \A i \in S : i.kind = kind
    IN  /\ OfKind(PageInputs, "page") /\ OfKind(CutInputs, "cut")
        /\ OfKind(SearchInputs, "search") /\ OfKind(EditInputs, "edit")
        /\ OfKind(SessionInputs, "session") /\ OfKind(HistoryInputs, "history")
        /\ OfKind(SyncInputs, "sync") /\ OfKind(BlameInputs, "blame")
        /\ OfKind(CodeInputs, "code") /\ OfKind(SymbolInputs, "symbol")
        /\ OfKind(RequestInputs, "request") /\ OfKind(ErrorInputs, "error")

ASSUME PagesAreOfFiles ==
    \A i \in PageInputs : i.bytes \in Seq(STRING) /\ i.size \in Nat \ {0}

ASSUME CutsAreOfFiles ==
    \A i \in CutInputs :
        i.bytes \in Seq(STRING) /\ {i.start, i.mid, i.end} \subseteq Nat

ASSUME SearchesAreOfViews ==
    \A i \in SearchInputs : i.view \in Seq(Listed) /\ i.query \in Query

ASSUME EditsAreOfTexts ==
    \A i \in EditInputs : i.text \in Seq(STRING) /\ i.first \in Block /\ i.second \in Block

ASSUME SessionsAreAtRest == \A i \in SessionInputs : AtRest(i.session)

ASSUME HistoriesAreWalks ==
    \A i \in HistoryInputs : i.walk \in Seq(ToSet(i.walk)) /\ i.size \in Nat \ {0}

ASSUME BlamesTileFiles ==
    \A i \in BlameInputs :
        /\ i.file \in Seq(STRING) /\ i.later \in Seq(STRING) /\ i.pinned \in BOOLEAN
        /\ i.entries \in Seq([start : Nat, commit : STRING, lines : Seq(STRING)])
        /\ BlameTiles(i.file, i.entries)

ASSUME CodeIsInExecutables ==
    \A i \in CodeInputs : i.file \in Executable /\ i.va \in Address /\ i.len \in Address

ASSUME SymbolsAreOfObjects ==
    \A i \in SymbolInputs : i.object.symbols \in Seq(Symbol) /\ i.address \in Address

ASSUME RequestsAreRequests == \A i \in RequestInputs : i.req \in Request

VARIABLE input

Init == input = [kind |-> "none"]

(* Any of the functions is asked for its result on any of its inputs.      *)
Ask == /\ input.kind = "none"
       /\ \/ input' \in PageInputs \union CutInputs
          \/ input' \in SearchInputs
          \/ input' \in EditInputs
          \/ input' \in SessionInputs
          \/ input' \in HistoryInputs
          \/ input' \in SyncInputs
          \/ input' \in BlameInputs
          \/ input' \in CodeInputs
          \/ input' \in SymbolInputs
          \/ input' \in RequestInputs
          \/ input' \in ErrorInputs

Answered == input.kind # "none" /\ UNCHANGED input

Next == Ask \/ Answered

Spec == Init /\ [][Next]_input
-----------------------------------------------------------------------------
(* A client that reads a file in pages of lines, or in cuts of bytes, gets *)
(* the file, and is told the lines it got (slice_file_content).  Of a cut  *)
(* of bytes that is the line it starts on; the comment of FileContent      *)
(* (model.rs:106) says 1 there.                                            *)
PagesReassemble ==
    /\ input.kind = "page" => LinePagesReassemble(input.bytes, input.size)
    /\ input.kind = "cut"  => BytePagesReassemble(input.bytes, input.start,
                                                  input.mid, input.end)

(* A hit is shown between its neighbours (before and after of the sink).   *)
ContextIsNeighbours ==
    input.kind = "search" => HitsShowNeighbours(input.view, input.query)

(* An edit of one text lands on the first place it stands at, and is       *)
(* refused when it stands at two places apart; a list of edits is one edit *)
(* after the other (apply_search_replace, whose comment promises exactly   *)
(* one occurrence: see OverlapAccepted in Algorithms_proofs).              *)
EditLandsOnFirst ==
    input.kind = "edit" => LandsOnFirst(input.text, input.first, input.second)

(* Status, diff and patch tell of the same changes, those a reader of the  *)
(* session sees (compute_status, diff, export_patch, apply_unified_diff).  *)
ChangesAgree ==
    input.kind = "session" => DiffsTellChanges(input.session)

(* The pages of a history are the history (history of both backends).      *)
HistoryInPages ==
    input.kind = "history" =>
       PagesTileHistory(input.walk, input.path, input.size)

(* What is shown at a revision is of that revision: a hit in the snapshot  *)
(* can be read at the head it is the snapshot of (resolve_commit,          *)
(* materialize_tree, list_files, read_file), and blame is the file line by *)
(* line, with the text of the blamed revision, or for svn at HEAD of the   *)
(* one fetched after it (blame of both backends).                          *)
ReadsShowRevision ==
    /\ input.kind = "sync" =>
          SnapshotIsHead(input.refs, input.trees, input.specRev, input.filter)
    /\ input.kind = "blame" =>
          BlameIsTheFile(input.file, input.later, input.entries, input.pinned)

(* The code shown for an address is the code at it (va_to_bytes), and the  *)
(* name shown for it is the nearest function's (resolve_function).         *)
AddressesAnswered ==
    /\ input.kind = "code" => BytesAreThoseAt(input.file, input.va, input.len)
    /\ input.kind = "symbol" => FunctionIsNearest(input.object, input.address)

(* REST and MCP make the same call of the same request, and blame the same *)
(* side for an error (rest.rs, mcp.rs, error.rs).                          *)
FrontEndsAgree ==
    /\ input.kind = "request" =>
          FrontsAgree(input.tokens, input.presented, input.req)
    /\ input.kind = "error" => FaultsAgree(input.error)
=============================================================================
