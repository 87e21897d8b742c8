------------------------------ MODULE Binaries ------------------------------
(***************************************************************************)
(* Finding bytes and function names in an executable (mortis-asm,          *)
(* binary.rs).  What the object crate parses is external: a file is the    *)
(* sequence of its sections, of its segments and of its symbols, and the   *)
(* number of its bytes.  Addresses are 64-bit words; the sums the code     *)
(* does not check wrap around, as they do in a release build.              *)
(***************************************************************************)
EXTENDS Integers, Sequences, FiniteSets, SequencesExt, FiniteSetsExt

CONSTANTS Word,      \* 2^64: one more than the largest address
          NoBytes    \* no range of the file, no result

ASSUME WordAssumption == Word \in Nat \ {0}

ASSUME NoBytesIsNoResult ==
    /\ NoBytes \notin [begin : Nat, end : Nat]
    /\ NoBytes \notin [name : STRING, start : Nat, offset : Nat, exact : BOOLEAN]

Wrap(n) == n % Word

Address    == 0..(Word - 1)
FileRange  == [offset : Address, size : Address]
LoadRange  == [addr : Address, size : Address, stored : FileRange \union {NoBytes}]
ObjectFile == [sections : Seq(LoadRange), segments : Seq(LoadRange), bytes : Address]
Executable == [kind : STRING, object : ObjectFile \union {NoBytes},
               arches : Seq([arch : STRING, object : ObjectFile \union {NoBytes}])]
Symbol     == [addr : Address, size : Address, kind : STRING, name : STRING]

(* os_format_for                                                           *)
OsFormatFor(kind) ==
    CASE kind \in {"pe32", "pe64"}         -> <<"pe", "windows">>
      [] kind \in {"elf32", "elf64"}       -> <<"elf", "linux">>
      [] kind \in {"macho32", "macho64"}   -> <<"macho", "apple">>
      [] kind \in {"fat32", "fat64"}       -> <<"fat", "apple">>
      [] OTHER                             -> NoBytes

(* pick_fat_slice prefers arm64, then x86_64, then the first one.          *)
PickFatSlice(arches) ==
    LET of(name) == SelectInSeq(arches, LAMBDA a : a.arch = name)
    IN  CASE arches = <<>>      -> NoBytes
          [] of("aarch64") # 0  -> arches[of("aarch64")].object
          [] of("aarch64") = 0 /\ of("x86_64") # 0 -> arches[of("x86_64")].object
          [] OTHER              -> arches[1].object

EffectiveSlice(file) ==
    IF OsFormatFor(file.kind) = NoBytes THEN NoBytes
    ELSE IF file.kind \in {"fat32", "fat64"} THEN PickFatSlice(file.arches)
    ELSE file.object

Covers(range, va) ==
    range.size # 0 /\ va >= range.addr /\ va < Wrap(range.addr + range.size)

(* The overflow checks of clamp_slice; the file holds object.bytes bytes,  *)
(* and the answer is the first byte and the one past the last.             *)
ClampSlice(object, stored, delta, len) ==
    LET begin == stored.offset + delta
        end   == begin + Min({len, stored.size - delta})
    IN  IF delta >= stored.size \/ begin >= Word \/ end >= Word \/ end > object.bytes
          THEN NoBytes
          ELSE [begin |-> begin, end |-> end]

(* One of the two loops of va_to_bytes: it stops at the first range that   *)
(* covers the address, whether or not that one has the bytes.              *)

\* Mutant: bytes past the range are given away.
FirstCoverUnclamped(object, ranges, va, len) ==
    LET i == SelectInSeq(ranges, LAMBDA r : Covers(r, va))
    IN  IF i = 0 THEN NoBytes
        ELSE IF ranges[i].stored = NoBytes THEN NoBytes
        ELSE LET begin == ranges[i].stored.offset + va - ranges[i].addr
             IN  IF begin + len > object.bytes THEN NoBytes
                 ELSE [begin |-> begin, end |-> begin + len]

FirstCover(object, ranges, va, len) ==
    LET i == SelectInSeq(ranges, LAMBDA r : Covers(r, va))
    IN  IF i = 0 THEN NoBytes
        ELSE IF ranges[i].stored = NoBytes THEN NoBytes
        ELSE ClampSlice(object, ranges[i].stored, va - ranges[i].addr, len)

VaToBytes(object, va, len) ==
    LET inSection == FirstCover(object, object.sections, va, len)
    IN  IF inSection # NoBytes THEN inSection
        ELSE FirstCover(object, object.segments, va, len)

DisassembleRange(file, va, len) ==
    IF len = 0 \/ EffectiveSlice(file) = NoBytes THEN NoBytes
    ELSE VaToBytes(EffectiveSlice(file), va, len)

(* resolve_function: the first function that covers the address, or else   *)
(* the nearest one that starts at or before it, the first of equals.       *)
Named(sym) == sym.kind = "text" /\ sym.name # ""

Around(sym, address) ==
    sym.size > 0 /\ address >= sym.addr /\ address < Wrap(sym.addr + sym.size)

Resolution(sym, address, exact) ==
    [name |-> sym.name, start |-> sym.addr, offset |-> address - sym.addr,
     exact |-> exact]

ResolveFunction(object, address) ==
    LET syms      == object.symbols
        Before(s) == Named(s) /\ s.addr <= address
        around  == SelectInSeq(syms, LAMBDA s : Named(s) /\ Around(s, address))
        nearest == SelectInSeq(syms, LAMBDA s :
                      Before(s) /\ \A t \in ToSet(syms) : Before(t) => t.addr <= s.addr)
    IN  IF around # 0 THEN Resolution(syms[around], address, TRUE)
        ELSE IF nearest # 0 THEN Resolution(syms[nearest], address, FALSE)
        ELSE NoBytes
-----------------------------------------------------------------------------
(* What a range really covers, however near the end of the addresses.      *)
Holds(range, va) == va \in range.addr..(range.addr + range.size - 1)
AtTheEnd(range) == range.addr + range.size >= Word

(* Code is disassembled from the bytes that are loaded at the address: the *)
(* bytes returned are those a section or a segment that holds the address  *)
(* stores for it, as many as were asked for and stored, all of them in the *)
(* file.  An address is refused only when nothing holds it, when what      *)
(* holds it first has no such bytes, or at the end of the addresses.       *)
BytesAreThoseAt(file, va, len) ==
    LET object == EffectiveSlice(file)
        got    == DisassembleRange(file, va, len)
        ranges == ToSet(object.sections) \union ToSet(object.segments)
        Stored(r) == r.stored # NoBytes /\ va - r.addr < r.stored.size
        Short(r)  == r.stored # NoBytes
                       /\ r.stored.offset + r.stored.size > object.bytes
    IN  object # NoBytes /\ len > 0 =>
          IF got = NoBytes
            THEN \/ \A r \in ranges : ~Holds(r, va)
                 \/ \E r \in ranges : /\ Holds(r, va)
                                      /\ AtTheEnd(r) \/ ~Stored(r) \/ Short(r)
            ELSE \E r \in ranges :
                   /\ Holds(r, va) /\ Stored(r)
                   /\ got.begin - r.stored.offset = va - r.addr
                   /\ got.end - got.begin
                        = Min({len, r.stored.size - (va - r.addr)})
                   /\ got.end <= object.bytes

(* A function is reported as exact only when the address is inside it, and *)
(* otherwise as the nearest one before, with the distance to it; an        *)
(* address inside a function is never reported as after another, unless    *)
(* the function ends where the addresses end.                              *)
FunctionIsNearest(object, address) ==
    LET got  == ResolveFunction(object, address)
        syms == {s \in ToSet(object.symbols) : Named(s)}
    IN  IF got = NoBytes THEN \A s \in syms : s.addr > address
        ELSE /\ \E s \in syms : /\ got.name = s.name /\ got.start = s.addr
                                /\ got.exact => Holds(s, address)
             /\ got.start + got.offset = address
             /\ ~got.exact => \A s \in syms :
                  /\ s.addr <= address => s.addr <= got.start
                  /\ Holds(s, address) => AtTheEnd(s)
=============================================================================
