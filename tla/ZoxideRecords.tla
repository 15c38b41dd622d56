--------------------------- MODULE ZoxideRecords ---------------------------
(***************************************************************************)
(* What zoxide prints, on its way to the actor's records and to the        *)
(* screen: the limit writer (internal/candidate/zoxide_limits.go), which   *)
(* the output pump calls with pieces of any size; parseZoxideRecords       *)
(* (zoxide.go), which first sends the buffer through a second writer in    *)
(* one piece; and MergeNewRecords (builder.go) as the initial enrichment   *)
(* uses it (internal/app/enrichment_commit.go): the actor's records become *)
(* merged, and what fzf shows already is extended by admitted.             *)
(*                                                                         *)
(* A byte is one of those that the code tells apart: newline, NUL, slash,  *)
(* anything else (no name on a path is . or ..).  The buffer behind the    *)
(* first writer and io.Discard behind the second do not fail.              *)
(***************************************************************************)
EXTENDS Integers, FiniteSets, SequencesExt

CONSTANTS
    MaxBytes, MaxRows, MaxRowBytes,     \* the limits
    MaxLength,                          \* bound: the longest output considered
    Locations                           \* where the picker may be launched

ASSUME LimitsAssumption == {MaxBytes, MaxRows, MaxRowBytes} \subseteq Nat \ {0}
ASSUME LengthAssumption == MaxLength \in Nat
ASSUME LocationsAssumption == Locations \subseteq {"inner", "root", "drive root"}

VARIABLES
    output,                     \* all that zoxide prints
    taken,                      \* how much of it the pump has passed on
    phase,                      \* who is at work
    pass,                       \* 1: the pump's writer, 2: the parser's
    data, index,                \* Write's argument and the loop over it
    total, rows, rowBytes, err, \* the zoxideLimitWriter
    sink,                       \* what is behind it
    start, records, outcome,    \* parseZoxideRecords
    base, next, filesystem, merged, admitted    \* mergeRecords

writerVars == <<total, rows, rowBytes, err>>
parserVars == <<start, records, outcome>>
mergeVars  == <<base, next, filesystem, merged, admitted>>
recordsVars == <<output, taken, phase, pass, data, index, writerVars, sink, parserVars, mergeVars>>

-----------------------------------------------------------------------------

(* The k-th of the positions S                                            *)
Nth(S, k) == CHOOSE i \in S : Cardinality({j \in S : j <= i}) = k

Byte == {"newline", "nul", "slash", "other"}

Records == [kind : {"local", "virtual", "zoxide"}, display : {".", "..", "x", "path"},
            path : Seq(Byte)]

RecordsTypeOK ==
    /\ output \in Seq(Byte) /\ data \in Seq(Byte) /\ sink \in Seq(Byte)
    /\ taken \in 0..Len(output) /\ index \in Nat /\ pass \in {1, 2}
    /\ phase \in {"idle", "write", "parse", "commit", "merge", "done"}
    /\ total \in 0..MaxBytes /\ rows \in 0..MaxRows /\ rowBytes \in 0..MaxRowBytes
    /\ err \in {"none", "limit"}
    /\ start \in Nat /\ records \in Seq(Seq(Byte))
    /\ outcome \in {"none", "ok", "limit", "empty row", "nul", "relative"}
    /\ base \in Seq(Records) /\ merged \in Seq(Records) /\ admitted \in Seq(Records)
    /\ next \in Nat /\ filesystem \subseteq Seq(Byte)

RecordsInit ==
    /\ output \in BoundedSeq(Byte, MaxLength)
    /\ taken = 0 /\ phase = "idle" /\ pass = 1
    /\ data = <<>> /\ index = 0
    /\ total = 0 /\ rows = 0 /\ rowBytes = 0 /\ err = "none"
    /\ sink = <<>>
    /\ start = 0 /\ records = <<>> /\ outcome = "none"
    /\ base = <<>> /\ next = 0 /\ filesystem = {}
    /\ merged = <<>> /\ admitted = <<>>

-----------------------------------------------------------------------------
(* The limit writer                                                        *)

(* The pump passes on what it has read, a piece of any size, and stops     *)
(* after an error.                                                         *)
Write ==
    /\ phase = "idle" /\ err = "none"
    /\ \E n \in 1..Len(output) - taken :
          data' = SubSeq(output, taken + 1, taken + n) /\ taken' = taken + n
    /\ phase' = "write" /\ index' = 0
    /\ UNCHANGED <<output, pass, writerVars, sink, parserVars, mergeVars>>

(* The limits as Write asks for them before it accepts data[index].        *)
refuses ==
    \/ total + index >= MaxBytes
    \/ rows >= MaxRows
    \/ data[index + 1] # "newline" /\ rowBytes >= MaxRowBytes

Scan ==
    /\ phase = "write" /\ index < Len(data) /\ ~refuses
    /\ IF data[index + 1] = "newline"
       THEN rows' = rows + 1 /\ rowBytes' = 0
       ELSE rowBytes' = rowBytes + 1 /\ UNCHANGED rows
    /\ index' = index + 1
    /\ UNCHANGED <<output, taken, phase, pass, data, total, err, sink, parserVars, mergeVars>>

(* What was accepted goes to the sink, if there is one.                    *)
writeSink(n) ==
    /\ sink' = IF pass = 1 THEN sink \o SubSeq(data, 1, n) ELSE sink
    /\ total' = total + n
    /\ phase' = "idle" /\ data' = <<>> /\ index' = 0
    /\ UNCHANGED <<output, taken, pass, rows, rowBytes, parserVars, mergeVars>>

(* Write refuses a byte, and every byte from then on.                      *)
reject ==
    /\ phase = "write" /\ index < Len(data) /\ refuses
    /\ writeSink(index) /\ err' = "limit"

WriteReturns ==
    /\ phase = "write" /\ index = Len(data)
    /\ writeSink(index) /\ UNCHANGED err

(* finalize: a last row without a newline counts.                          *)
finalizes == err = "none" /\ (rowBytes # 0 => rows < MaxRows)

End(o) ==
    /\ outcome' = o
    /\ phase' = IF o = "ok" THEN "commit" ELSE "done"
    /\ records' = IF o = "ok" THEN records ELSE <<>>
    /\ start' = 0 /\ total' = 0 /\ rows' = 0 /\ rowBytes' = 0 /\ err' = "none"

(* load's call of finalize, and a new writer for the whole buffer          *)
finalize ==
    /\ phase = "idle" /\ pass = 1 /\ (taken = Len(output) \/ err # "none")
    /\ IF finalizes
       THEN /\ pass' = 2 /\ data' = sink /\ phase' = "write"
            /\ total' = 0 /\ rows' = 0 /\ rowBytes' = 0 /\ err' = "none"
            /\ UNCHANGED parserVars
       ELSE End("limit") /\ UNCHANGED <<pass, data>>
    /\ UNCHANGED <<output, taken, index, sink, mergeVars>>

-----------------------------------------------------------------------------
(* parseZoxideRecords                                                      *)

(* The newline at the very end is cut off.                                 *)
buffer == IF sink # <<>> /\ Last(sink) = "newline" THEN Front(sink) ELSE sink

validateZoxideOutputBounds ==
    /\ phase = "idle" /\ pass = 2
    /\ CASE ~finalizes -> End("limit")
         [] finalizes /\ sink = <<>> -> End("ok")
         [] finalizes /\ sink # <<>> /\ buffer = <<>> -> End("empty row")
         [] OTHER -> phase' = "parse" /\ UNCHANGED <<parserVars, writerVars>>
    /\ UNCHANGED <<output, taken, pass, data, index, sink, mergeVars>>

(* The bytes from start to the next newline or the end                     *)
row ==
    LET rest == SubSeq(buffer, start + 1, Len(buffer))
        n == SelectInSeq(rest, LAMBDA b : b = "newline")
    IN  IF n = 0 THEN rest ELSE SubSeq(rest, 1, n - 1)

(* Mutant: the newline after a row is taken for the next row.              *)
skipNothing == start + Len(row)

skip == start + Len(row) + IF start + Len(row) < Len(buffer) THEN 1 ELSE 0

parseZoxideRecords ==
    /\ phase = "parse"
    /\ IF start >= Len(buffer) THEN End("ok")
       ELSE IF row = <<>> THEN End("empty row")
       ELSE IF Contains(row, "nul") THEN End("nul")
       ELSE IF Head(row) # "slash" THEN End("relative")
       ELSE /\ records' = Append(records, row)
            /\ start' = skip
            /\ UNCHANGED <<phase, outcome, writerVars>>
    /\ UNCHANGED <<output, taken, pass, data, index, sink, mergeVars>>

-----------------------------------------------------------------------------
(* MergeNewRecords                                                         *)

Record(k, d, p) == [kind |-> k, display |-> d, path |-> p]
Local(d, p) == Record("local", d, p)

slash == <<"slash">>
x     == <<"slash", "other">>

(* ordinaryRootRecords and rootRecords: on Unix the parent of the root is  *)
(* the root; on Windows the parent of a drive's root is the virtual list   *)
(* of drives.                                                              *)
rootRecords(l) ==
    CASE l = "inner" -> << Local(".", x \o x), Local("..", x) >>
      [] l = "root" -> << Local(".", slash), Local("..", slash) >>
      [] l = "drive root" -> << Local(".", x), Record("virtual", "..", <<>>) >>

(* commit reads the launch view: the roots, and maybe a directory.         *)
ReadBase ==
    /\ phase = "commit"
    /\ \E l \in Locations, d \in {<<>>, <<Local("x", x \o x \o x)>>} : base' = rootRecords(l) \o d
    /\ next' = 1 /\ phase' = "merge"
    /\ UNCHANGED <<output, taken, pass, data, index, writerVars, sink, parserVars,
                   filesystem, merged, admitted>>

(* Mutant: a path is its own key.                                          *)
rawRecordKey(p) == p

(* filepath.Clean of an absolute path: no slash before a slash or the end, *)
(* unless nothing else is left.                                            *)
filesystemRecordKey(p) ==
    LET kept == {i \in DOMAIN p : p[i] = "slash" => i < Len(p) /\ p[i + 1] # "slash"}
    IN  IF kept = {} THEN slash ELSE [k \in 1..Cardinality(kept) |-> p[Nth(kept, k)]]

newRecords == [i \in DOMAIN records |-> Record("zoxide", "path", records[i])]

isAddition == next > Len(base)

(* The keys of virtual records are the records themselves.                 *)
exists(r) ==
    IF r.kind = "virtual" THEN Contains(merged, r) ELSE filesystemRecordKey(r.path) \in filesystem

(* The closure of mergeRecords, over base and then over the additions      *)
appendRecord ==
    /\ phase = "merge" /\ next <= Len(base \o records)
    /\ LET r == (base \o newRecords)[next] IN
          IF exists(r) THEN UNCHANGED <<filesystem, merged, admitted>>
          ELSE /\ filesystem' = IF r.kind = "virtual" THEN filesystem
                                ELSE filesystem \cup {filesystemRecordKey(r.path)}
               /\ merged' = Append(merged, r)
               /\ admitted' = IF isAddition THEN Append(admitted, r) ELSE admitted
    /\ next' = next + 1
    /\ UNCHANGED <<output, taken, phase, pass, data, index, writerVars, sink, parserVars, base>>

MergeReturns ==
    /\ phase = "merge" /\ next > Len(base \o records)
    /\ phase' = "done"
    /\ UNCHANGED <<output, taken, pass, data, index, writerVars, sink, parserVars, mergeVars>>

-----------------------------------------------------------------------------

RecordsNext ==
    \/ Write \/ Scan \/ reject \/ WriteReturns \/ finalize
    \/ validateZoxideOutputBounds \/ parseZoxideRecords
    \/ ReadBase \/ appendRecord \/ MergeReturns

RecordsSpec == RecordsInit /\ [][RecordsNext]_recordsVars

-----------------------------------------------------------------------------
(* Properties, against a definition of the rows that knows no loop         *)

(* A part of s starts at the first byte and after a separator, and ends    *)
(* before the next separator or with s.                                    *)
Starts(s, separator) == {i \in DOMAIN s : i = 1 \/ s[i - 1] = separator}

Part(s, separator, i) ==
    SubSeq(s, i, Min({j \in i..Len(s) + 1 : j = Len(s) + 1 \/ s[j] = separator}) - 1)

(* The parts that start at the positions S, in order                       *)
Parts(s, separator, S) == [k \in 1..Cardinality(S) |-> Part(s, separator, Nth(S, k))]

RowStarts(s) == Starts(s, "newline")
Row(s, i) == Part(s, "newline", i)

WithinLimits(s) ==
    /\ Len(s) <= MaxBytes /\ Cardinality(RowStarts(s)) <= MaxRows
    /\ \A i \in RowStarts(s) : Len(Row(s, i)) <= MaxRowBytes

Fault(r) ==
    IF r = <<>> THEN "empty row"
    ELSE IF Contains(r, "nul") THEN "nul"
    ELSE IF Head(r) # "slash" THEN "relative" ELSE "ok"

(* What becomes of the output s, as a function of all of it: the limits    *)
(* come first, then the first bad row; otherwise the rows are the records. *)
(* (One newline at the end is cut off before the rows are looked at.)      *)
Parsed(s) ==
    LET cut == IF s # <<>> /\ Last(s) = "newline" THEN Front(s) ELSE s
        bad == {i \in RowStarts(cut) : Fault(Row(cut, i)) # "ok"}
        Failure(o) == [outcome |-> o, records |-> <<>>]
    IN  IF ~WithinLimits(s) THEN Failure("limit")
        ELSE IF s # <<>> /\ cut = <<>> THEN Failure("empty row")
        ELSE IF bad # {} THEN Failure(Fault(Row(cut, Min(bad))))
        ELSE [outcome |-> "ok", records |-> Parts(cut, "newline", RowStarts(cut))]

(* docs/protocol.md: "An exact limit is valid; limit plus one is a         *)
(* malformed soft failure", and docs/security.md: "no partial records are  *)
(* published": outcome and records depend on what zoxide printed and never *)
(* on the pieces in which it arrived, and what the first writer lets       *)
(* through the second one does not refuse.                                 *)
OutputDecides ==
    /\ outcome # "none" => [outcome |-> outcome, records |-> records] = Parsed(output)
    /\ pass = 2 => finalizes /\ outcome # "limit"

(* The file that an absolute path names: the names on the way to it.       *)
File(p) ==
    LET names == {i \in Starts(p, "slash") : p[i] # "slash"}
    IN  Parts(p, "slash", names)

(* Two records of one target: one file however it is spelled, or one       *)
(* virtual record.                                                         *)
SameTarget(r, s) ==
    IF "virtual" \in {r.kind, s.kind} THEN r = s ELSE File(r.path) = File(s.path)

(* The positions in l of the first record of each target                   *)
Firsts(l) == {i \in DOMAIN l : \A j \in 1..i - 1 : ~SameTarget(l[j], l[i])}

(* The elements of l at the positions S, in order                          *)
Elements(l, S) == [k \in 1..Cardinality(S) |-> l[Nth(S, k)]]

(* builder.go: "base-first records and the additions admitted by target    *)
(* identity".  Wherever the picker was launched, the actor's new records   *)
(* are the first of every target, in the order of the launch view and then *)
(* of zoxide's output: no target is lost or there twice, and what goes to  *)
(* fzf is what is new among them.                                          *)
FirstsAreMerged ==
    phase = "done" /\ outcome = "ok" =>
        LET all == base \o newRecords
            new == {i \in Firsts(all) : i > Len(base)}
        IN  merged = Elements(all, Firsts(all)) /\ admitted = Elements(all, new)

(* TestMergeNewRecordsUsesMergeRecordsIdentityAndOrdering demands that the *)
(* base records be "preserved first": the actor, which answers a selection *)
(* or a preview from its records alone, has every row that fzf shows, the  *)
(* rows of the launch followed by the admitted ones.  (When nothing is     *)
(* admitted, commit leaves both as they are.)                              *)
ScreenMatchesSnapshot ==
    phase = "done" /\ admitted # <<>> => merged = base \o admitted
=============================================================================
