---------------------------- MODULE IiifRequest ----------------------------
(***************************************************************************)
(* The pure half of the request edge: how a request path is classified and *)
(* its IIIF parameters parsed (crate iiif_parser), which admission class   *)
(* it gets, which path on disk it names, which bytes a Range header asks   *)
(* for, and the pyramid an info.json announces.                            *)
(*                                                                         *)
(* A path segment is already percent-decoded (urldecode) and is abstracted *)
(* to the shape the grammar tells apart: `form` is the shape, `up` and     *)
(* `bang` say whether a '^' or a '!' precedes it, `nums` are its numbers,  *)
(* `qual` and `fmt` the two halves of a quality.format.  The form "dotdot" *)
(* stands for a segment R1 recognises as a traversal, "nul" for one that   *)
(* holds a NUL byte, "fraction" for a decimal number.                      *)
(***************************************************************************)
EXTENDS Integers, Sequences, FiniteSetsExt

CONSTANTS SizeCap,       \* 32 000, the cap on a requested dimension
          UsizeMax,      \* the largest dimension str::parse::<usize> accepts
          Threshold,     \* large_decode_threshold_bytes
          BytesPerPixel, \* BYTES_PER_PIXEL_PROXY
          DefaultTile,   \* 512, the reference tile of an untiled image
          MaxLevel,      \* 31, the clamp that keeps a factor inside u32
          Word           \* 2^64, the width of the byte offsets

ASSUME IiifAssumption ==
    /\ SizeCap \in Nat \ {0} /\ UsizeMax \in Nat \ {0}
    /\ Word \in Nat \ {0}

(* A percentage has its number. *)
Segment ==
    {s \in [form : STRING, up : BOOLEAN, bang : BOOLEAN, nums : Seq(Nat), qual : STRING, fmt : STRING] :
        s.form = "pct" => Len(s.nums) = 1}
Seg(form) == [form |-> form, up |-> FALSE, bang |-> FALSE, nums |-> <<>>, qual |-> "", fmt |-> ""]
HasDot(s) == s.form \in {"info.json", "knora.json", "dotted", "qualform", "dotdot", "fraction"}
HasNul(s) == s.form = "nul"
ContainsTraversal(s) == s.form = "dotdot"

----------------------------------------------------------------------------
(* Validators: they gate the classification. *)

IsValidRegion(s) ==
    /\ s.form \in {"full", "square", "coords", "pctcoords"}
    /\ ~s.up /\ ~s.bang
IsValidSize(s) ==
    \/ s.form \in {"max", "pct", "w,", ",h"} /\ ~s.bang
    \/ s.form = "w,h"
IsValidRotation(s) == s.form \in {"number", "fraction"} /\ ~s.up
IsValidQualform(s) ==
    /\ s.form = "qualform"
    /\ s.qual \in {"color", "gray", "bitonal", "default"}
    /\ s.fmt \in {"jpg", "tif", "png", "jp2"}

----------------------------------------------------------------------------
(* Parsers: they may still refuse what a validator let through. *)

ParseRegion(s) ==
    [kind   |-> CASE s.form = "full" -> "Full" [] s.form = "square" -> "Square"
                  [] s.form = "pctcoords" -> "Percents" [] OTHER -> "Coords",
     coords |-> IF s.form \in {"full", "square"} THEN <<0, 0, 0, 0>> ELSE s.nums]

(* A dimension: digits that do not fit usize are a parse error, zero is refused. *)
DimOkZero(n) == n \in 0..UsizeMax
DimOk(n) == n \in 1..UsizeMax
Capped(n) == Min({n, SizeCap})
NoSize == [ok |-> FALSE, kind |-> "Undefined", upscaling |-> FALSE, percent |-> 0, nx |-> 0, ny |-> 0]
SizeParts(s, kind) == [NoSize EXCEPT !.ok = TRUE, !.kind = kind, !.upscaling = s.up]
ParseSize(s) ==
    CASE s.form = "max" -> SizeParts(s, "Full")
      [] s.form = "pct" /\ ~s.bang ->
            [SizeParts(s, "Percents") EXCEPT !.percent = IF s.nums[1] = 0 THEN 1 ELSE s.nums[1]]
      [] s.form = ",h" /\ ~s.bang /\ DimOk(s.nums[1]) ->
            [SizeParts(s, "PixelsY") EXCEPT !.ny = Capped(s.nums[1])]
      [] s.form = "w," /\ DimOk(s.nums[1]) ->
            [SizeParts(s, "PixelsX") EXCEPT !.nx = Capped(s.nums[1])]
      [] s.form = "w,h" /\ DimOk(s.nums[1]) /\ DimOk(s.nums[2]) ->
            [SizeParts(s, IF s.bang THEN "Maxdim" ELSE "PixelsXy")
                EXCEPT !.nx = Capped(s.nums[1]), !.ny = Capped(s.nums[2])]
      [] OTHER -> NoSize

ParseRotation(s) == [mirror |-> s.bang, angle |-> s.nums[1]]
FormatKind(f) == IF f \in {"jpg", "tif", "png", "gif", "jp2", "pdf", "webp"} THEN f ELSE "unsupported"
ParseQualityFormat(s) == [quality |-> s.qual, format |-> FormatKind(s.fmt)]

NoParams == [region |-> [kind |-> "Full", coords |-> <<>>], size |-> NoSize,
             rotation |-> [mirror |-> FALSE, angle |-> 0],
             qf |-> [quality |-> "", format |-> ""]]
ParseIiifParams(region, size, rotation, qualform) ==
    [region |-> ParseRegion(region), size |-> ParseSize(size),
     rotation |-> ParseRotation(rotation), qf |-> ParseQualityFormat(qualform)]

----------------------------------------------------------------------------
(* Classification. *)

(* A path that starts with '/' loses the empty first piece of the split, one
   that ends with '/' the empty last one; inner empty pieces stay. *)
Tokenize(segs) ==
    LET n == Len(segs)
    IN  IF n > 0 /\ segs[n].form = "empty" THEN SubSeq(segs, 1, n - 1) ELSE segs

Malformed == [ok |-> FALSE, kind |-> "Error", prefix |-> <<>>, identifier |-> Seg("empty"), params |-> NoParams]
Parsed(kind, prefix, identifier, params) ==
    [ok |-> TRUE, kind |-> kind, prefix |-> prefix, identifier |-> identifier, params |-> params]

(* The prefix of a redirect: no component may be empty. *)
BuildPrefixStrict(parts, identifier) ==
    IF \E i \in DOMAIN parts : parts[i].form = "empty" THEN Malformed
    ELSE Parsed("Redirect", parts, identifier, NoParams)

(* `…/{id}/{tail}`, the shape of info.json, knora.json and file. *)
Document(kind, parts) ==
    LET n == Len(parts)
    IN  IF n < 2 THEN Malformed ELSE Parsed(kind, SubSeq(parts, 1, n - 2), parts[n - 1], NoParams)

ParseRequest(segs) ==
    LET parts == Tokenize(segs)
        n     == Len(parts)
        last  == parts[n]
        qualformOk == IsValidQualform(last)
        restOk == /\ n > 3
                  /\ IsValidRotation(parts[n - 1])
                  /\ IsValidSize(parts[n - 2])
                  /\ IsValidRegion(parts[n - 3])
        params == ParseIiifParams(parts[n - 3], parts[n - 2], parts[n - 1], last)
    IN  CASE n = 0 -> Malformed
          [] n > 0 /\ qualformOk /\ restOk ->
                IF n < 5 \/ ~params.size.ok THEN Malformed
                ELSE Parsed("Iiif", SubSeq(parts, 1, n - 5), parts[n - 4], params)
          [] n > 0 /\ last.form = "info.json" -> Document("InfoJson", parts)
          [] n > 0 /\ last.form = "knora.json" -> Document("KnoraJson", parts)
          [] n > 0 /\ last.form = "file" -> Document("FileDownload", parts)
          [] OTHER -> IF (HasDot(last) /\ qualformOk) \/ restOk THEN Malformed
                      ELSE BuildPrefixStrict(SubSeq(parts, 1, n - 1), last)

----------------------------------------------------------------------------
(* The admission class of a request (Admission::classify). *)

Unbounded == -1
OutputPixelUpperBound(p) ==
    CASE p.size.kind \in {"PixelsXy", "Maxdim"} -> p.size.nx * p.size.ny
      [] p.size.kind = "PixelsX" -> p.size.nx * p.size.nx
      [] p.size.kind = "PixelsY" -> p.size.ny * p.size.ny
      [] OTHER -> Unbounded
IsFullImage(p) ==
    \/ OutputPixelUpperBound(p) = Unbounded
    \/ OutputPixelUpperBound(p) * BytesPerPixel >= Threshold
Classify(parsed) == IF parsed.kind = "Iiif" /\ IsFullImage(parsed.params) THEN "full" ELSE "tile"
(* Did the engine's own estimate put the request in the other class?  An
   estimate of 0 means that nothing was decoded. *)
Disagrees(parsed, estimate) ==
    /\ estimate # 0
    /\ Classify(parsed) # (IF estimate >= Threshold THEN "full" ELSE "tile")

----------------------------------------------------------------------------
(* The seam: the parsed parameters as the integers the C structure carries. *)

Index(seq, x) == (CHOOSE i \in DOMAIN seq : seq[i] = x) - 1
SipiRegionType(k) == Index(<<"Full", "Square", "Coords", "Percents">>, k)
SipiSizeType(k) ==
    Index(<<"Undefined", "Full", "PixelsXy", "PixelsX", "PixelsY", "Maxdim", "Percents", "Reduce">>, k)
SipiQualityType(k) == Index(<<"default", "color", "gray", "bitonal">>, k)
SipiFormatType(k) == Index(<<"unsupported", "jpg", "tif", "png", "gif", "jp2", "pdf", "webp">>, k)
SipiIiifParams(p) ==
    [region_type |-> SipiRegionType(p.region.kind), region |-> p.region.coords,
     size_type |-> SipiSizeType(p.size.kind), size_upscaling |-> IF p.size.upscaling THEN 1 ELSE 0,
     size_percent |-> p.size.percent, size_nx |-> p.size.nx, size_ny |-> p.size.ny,
     rotation |-> p.rotation.angle, rotation_mirror |-> IF p.rotation.mirror THEN 1 ELSE 0,
     quality_type |-> SipiQualityType(p.qf.quality), format_type |-> SipiFormatType(p.qf.format)]

----------------------------------------------------------------------------
(* Paths and byte ranges. *)

(* imgroot/prefix/identifier, or imgroot/identifier: a path is the sequence of
   the forms of its components. *)
BuildRequestPath(prefix, identifier, prefixAsPath) ==
    LET Forms(segs) == [i \in DOMAIN segs |-> segs[i].form]
    IN  Forms((IF prefixAsPath THEN prefix ELSE <<>>) \o <<identifier>>)

(* A Range header: "none" is absent, "bad" does not match; a bound of -1 is
   left out. *)
RangeHeader(form, start, end) == [form |-> form, start |-> start, end |-> end]
NoRange == RangeHeader("none", -1, -1)
BadRange == [ok |-> FALSE, start |-> 0, end |-> 0]
Whole(start, end) == [ok |-> TRUE, start |-> start, end |-> end]

(* The docroot's parser refuses what it cannot serve, an end before the start
   included. *)
ParseByteRangeUnclamped(range, fsize) ==
    IF range.form = "bad" \/ range.start = -1 \/ range.start >= fsize THEN BadRange
    ELSE Whole(range.start, IF range.end = -1 THEN fsize - 1 ELSE range.end)
ParseByteRange(range, fsize) ==
    LET end == IF range.end = -1 THEN Max({fsize - 1, 0}) ELSE range.end
        clamped == Min({end, fsize - 1})
    IN  IF range.form = "bad" \/ range.start = -1 \/ range.start >= fsize \/ clamped < range.start
        THEN BadRange ELSE Whole(range.start, clamped)

(* The engine's parser (build_file_response) leaves the order of the bounds
   unchecked; the length is computed on unsigned 64-bit integers. *)
EngineRange(range, fsize) ==
    LET end == IF range.end = -1 THEN Max({fsize - 1, 0}) ELSE range.end
    IN  IF range.form = "bad" \/ range.start = -1 \/ range.start >= fsize THEN BadRange
        ELSE Whole(range.start, IF end >= fsize THEN fsize - 1 ELSE end)
SpanLength(span) == (span.end - span.start + 1) % Word

----------------------------------------------------------------------------
(* The pyramid of an info.json. *)

Levels[n \in 0..MaxLevel, dim \in Nat, tile \in Nat] ==
    IF tile * 2^n < dim /\ n < MaxLevel THEN Levels[n + 1, dim, tile] ELSE n
TileOf(dims) ==
    IF dims.tw > 0 /\ dims.th > 0 THEN <<dims.tw, dims.th>> ELSE <<DefaultTile, DefaultTile>>
PyramidScaleFactorsShort(dims) ==
    LET tile == TileOf(dims)
        n == Min({Levels[0, dims.w, tile[1]], Levels[0, dims.h, tile[2]]})
    IN  [i \in 1..(n + 1) |-> 2^(i - 1)]
PyramidScaleFactors(dims) ==
    LET tile == TileOf(dims)
        n == Max({Levels[0, dims.w, tile[1]], Levels[0, dims.h, tile[2]]})
    IN  [i \in 1..(n + 1) |-> 2^(i - 1)]
DivCeil(a, b) == (a + b - 1) \div b
SizesFor(dims, factors) ==
    LET n == Len(factors)
        rev == [i \in 1..n |-> factors[n + 1 - i]]
    IN  [i \in 1..n |-> [w |-> DivCeil(dims.w, rev[i]), h |-> DivCeil(dims.h, rev[i])]]

=============================================================================
