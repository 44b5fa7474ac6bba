--------------------------- MODULE WhisperLoader ----------------------------
(***************************************************************************)
(* src/carbonj.service/src/main/docker/files/cj-load.py: walks a directory *)
(* of whisper files and, for each, posts the points of its archive at the  *)
(* target database's precision to CarbonJ's dbloader endpoint, one line    *)
(* '%d, %s' per point, the value written by str() (Python 2) with trailing *)
(* zeros stripped.  Any exception ends the script.                         *)
(*                                                                         *)
(* A path is a sequence of directory names; a file is its directory and    *)
(* the base name of its .wsp file.  A float is [neg, digits, exp]: the     *)
(* value d1.d2d3... * 10^exp, its significant digits without trailing      *)
(* zeros (zero has no digits).  An archive lists its non-empty slots and   *)
(* some empty ones (timestamp 0); the long runs of empty slots of a real   *)
(* archive are left out, as they produce no line.                          *)
(***************************************************************************)
EXTENDS Integers, Sequences, SequencesExt

CONSTANTS
    DbName,         \* args[0]: "60s24h", "5m7d" or "30m2y"
    DryRun,         \* --dryrun
    RootDir,        \* cfg['rootdir']
    Files,          \* the *.wsp files os.walk finds under the search path
    Headers,        \* the whisper files a file may hold ("corrupt": unreadable)
    PostOutcomes    \* "ok", "error" (a status other than 2xx), "raise"

VARIABLES
    pc,         \* "run", "done" or "failed"
    content,    \* file -> the whisper file it holds
    visited,    \* the files process_files has reached
    loaded      \* metric name -> the lines dbloader accepted for it

vars == <<pc, content, visited, loaded>>

\* p_r (line 25): the precision and retention, in seconds, of each database.
PR == [d \in {"60s24h", "5m7d", "30m2y"} |->
          CASE d = "60s24h" -> <<60, 86400>>
            [] d = "5m7d"   -> <<300, 604800>>
            [] OTHER        -> <<1800, 63072000>>]

\* str(float) keeps this many significant digits ('%.12g').
Precision == 12

-----------------------------------------------------------------------------
(* Text.  A string is a sequence of one-character strings.                 *)

Chars == <<"0", "1", "2", "3", "4", "5", "6", "7", "8", "9">>
Text(ds) == [i \in DOMAIN ds |-> Chars[ds[i] + 1]]
Zeros(n) == [i \in 1..n |-> "0"]

\* The decimal digits of a natural number.
RECURSIVE Decimal(_)
Decimal(n) == IF n < 10 THEN <<n>> ELSE Decimal(n \div 10) \o <<n % 10>>

\* s.rstrip(c): drops every c at the end of s.
RECURSIVE RStrip(_, _)
RStrip(s, c) == IF s # <<>> /\ Last(s) = c THEN RStrip(Front(s), c) ELSE s

\* Adds one to the last digit, carrying.
RECURSIVE Increment(_)
Increment(ds) ==
    CASE ds = <<>>     -> <<1>>
      [] Last(ds) = 9  -> Increment(Front(ds)) \o <<0>>
      [] OTHER         -> Front(ds) \o <<Last(ds) + 1>>

\* The digits and exponent '%.12g' prints: rounded to Precision digits
\* (half up), without trailing zeros.
Rounded(v) ==
    IF Len(v.digits) <= Precision THEN [digits |-> v.digits, exp |-> v.exp]
    ELSE LET up == Increment(SubSeq(v.digits, 1, Precision))
             r  == IF v.digits[Precision + 1] >= 5 THEN up ELSE SubSeq(v.digits, 1, Precision)
         IN  IF Len(r) > Precision THEN [digits |-> <<1>>, exp |-> v.exp + 1]
                                   ELSE [digits |-> RStrip(r, 0), exp |-> v.exp]

\* '%g' in exponent form: d[.ddd]e+XX, at least two exponent digits.
Scientific(d, x) ==
    LET ed == Decimal(IF x < 0 THEN -x ELSE x)
    IN  Text(<<d[1]>>) \o (IF Len(d) > 1 THEN <<".">> \o Text(Tail(d)) ELSE <<>>)
        \o <<"e", IF x < 0 THEN "-" ELSE "+">>
        \o Zeros(IF Len(ed) < 2 THEN 2 - Len(ed) ELSE 0) \o Text(ed)

\* '%g' in positional form; str() adds '.0' to a whole number.
Positional(d, x) ==
    CASE x < 0             -> <<"0", ".">> \o Zeros(-x - 1) \o Text(d)
      [] Len(d) <= x + 1   -> Text(d) \o Zeros(x + 1 - Len(d)) \o <<".", "0">>
      [] OTHER             -> Text(SubSeq(d, 1, x + 1)) \o <<".">> \o Text(SubSeq(d, x + 2, Len(d)))

\* str(value) of Python 2 (line 111).
Str(v) ==
    LET r == Rounded(v)
    IN  (IF v.neg THEN <<"-">> ELSE <<>>) \o
        (CASE r.digits = <<>>                        -> <<"0", ".", "0">>
           [] r.exp < -4 \/ r.exp >= Precision       -> Scientific(r.digits, r.exp)
           [] OTHER                                  -> Positional(r.digits, r.exp))

\* Line 112: val.rstrip('0').rstrip('.') if '.' in val else val.
WithoutTrailingZeros(val) ==
    IF "." \in Range(val) THEN RStrip(RStrip(val, "0"), ".") ELSE val

-----------------------------------------------------------------------------
(* The loader.                                                             *)

\* read_header (lines 62-93): the archives, each with its retention.
ReadHeader(h) ==
    [i \in DOMAIN h |-> [secondsPerPoint |-> h[i].secondsPerPoint, points |-> h[i].points,
                         retention |-> h[i].secondsPerPoint * h[i].points, slots |-> h[i].slots]]

\* Line 100: the archives of the precision whose retention fits.
Fitting(h, precision, retention) ==
    SelectSeq(ReadHeader(h), LAMBDA a : a.secondsPerPoint = precision /\ a.retention <= retention)

\* load_archive_data (lines 105-117): a line per slot with a timestamp.
LoadArchiveData(a) ==
    LET pts == SelectSeq(a.slots, LAMBDA p : p[1] # 0)
    IN  [i \in DOMAIN pts |-> <<pts[i][1], WithoutTrailingZeros(Str(pts[i][2]))>>]

\* archive_data (lines 95-103): the data of the last archive of the
\* precision whose retention fits; None (here <<>>) when there is none.
ArchiveData(h, precision, retention) ==
    LET fit == Fitting(h, precision, retention)
    IN  IF fit = <<>> THEN <<>> ELSE LoadArchiveData(Last(fit))

\* os.path.relpath (line 132): up to the common prefix, then down.
RelPath(p, root) ==
    LET c == Len(LongestCommonPrefix({p, root}))
    IN  [i \in 1..(Len(root) - c) |-> ".."] \o SubSeq(p, c + 1, Len(p))

\* to_metric_name (lines 129-134): the path relative to the root, '/'
\* replaced by '.', and [:-4] cutting '.wsp' off the file name.
ToMetricName(f) == RelPath(f.dir, RootDir) \o <<f.base>>

Init ==
    /\ pc = "run"
    /\ content \in [Files -> Headers]
    /\ visited = {}
    /\ loaded = <<>>

\* process_file (lines 171-183) for the next file of the walk (lines
\* 158-164).  A corrupt header, the print of line 175 (its '%' has one
\* argument for three '%s': TypeError) and an exception of requests.post
\* end the script.
ProcessFile(f) ==
    LET data == ArchiveData(content[f], PR[DbName][1], PR[DbName][2])
        name == ToMetricName(f)
    IN  /\ pc = "run"
        /\ f \notin visited
        /\ visited' = visited \cup {f}
        /\ \/ /\ content[f] = "corrupt" \/ data = <<>>
              /\ pc' = "failed"
              /\ UNCHANGED loaded
           \/ /\ content[f] # "corrupt" /\ data # <<>>
              /\ DryRun
              /\ UNCHANGED <<pc, loaded>>
           \/ /\ content[f] # "corrupt" /\ data # <<>>
              /\ ~DryRun
              /\ \E o \in PostOutcomes :
                    /\ loaded' = IF o = "ok" THEN loaded @@ (name :> data) ELSE loaded
                    /\ pc' = IF o = "raise" THEN "failed" ELSE pc
        /\ UNCHANGED content

\* Lines 196-197: the walk is over and the count is printed.
Finish ==
    /\ pc = "run"
    /\ visited = Files
    /\ pc' = "done"
    /\ UNCHANGED <<content, visited, loaded>>

Next == (\E f \in Files : ProcessFile(f)) \/ Finish

Spec == Init /\ [][Next]_vars

-----------------------------------------------------------------------------
(* Properties.                                                             *)

\* The value of a decimal text, as the server reads it: [-]ddd[.ddd][e[+-]dd].
Parse(s) ==
    LET neg  == s # <<>> /\ s[1] = "-"
        b    == IF neg THEN Tail(s) ELSE s
        ePos == SelectInSeq(b, LAMBDA c : c = "e")
        mant == IF ePos = 0 THEN b ELSE SubSeq(b, 1, ePos - 1)
        etxt == IF ePos = 0 THEN <<>> ELSE SubSeq(b, ePos + 1, Len(b))
        Num(t) == FoldLeft(LAMBDA acc, c : 10 * acc + SelectInSeq(Chars, LAMBDA x : x = c) - 1, 0, t)
        e    == CASE etxt = <<>>   -> 0
                  [] etxt[1] = "-" -> -Num(Tail(etxt))
                  [] etxt[1] = "+" -> Num(Tail(etxt))
                  [] OTHER         -> Num(etxt)
        dot  == SelectInSeq(mant, LAMBDA c : c = ".")
        ip   == IF dot = 0 THEN mant ELSE SubSeq(mant, 1, dot - 1)
        ds   == [i \in 1..(Len(mant) - IF dot = 0 THEN 0 ELSE 1) |->
                    SelectInSeq(Chars, LAMBDA x : x = (ip \o SubSeq(mant, dot + 1, Len(mant)))[i]) - 1]
        nz   == SelectInSeq(ds, LAMBDA d : d # 0)
    IN  IF nz = 0 THEN [neg |-> FALSE, digits |-> <<>>, exp |-> 0]
        ELSE [neg |-> neg, digits |-> RStrip(SubSeq(ds, nz, Len(ds)), 0),
              exp |-> Len(ip) - nz + e]

\* The points a file holds for the target database: the slots with a
\* timestamp of its archive at that precision whose retention fits.
Stored(f) ==
    LET fit == Fitting(content[f], PR[DbName][1], PR[DbName][2])
    IN  IF fit = <<>> THEN <<>> ELSE SelectSeq(Last(fit).slots, LAMBDA p : p[1] # 0)

TypeOK ==
    /\ pc \in {"run", "done", "failed"}
    /\ content \in [Files -> Headers]
    /\ visited \subseteq Files
    /\ DOMAIN loaded \subseteq {ToMetricName(f) : f \in Files}

\* When the loader stops, every readable file that holds points for the
\* target database has been loaded into its metric, each point with the
\* timestamp and the value the whisper file stores: a load that answers
\* 2xx copies the data, whatever other files the walk met and however the
\* values are written.
LoadedAsStored ==
    pc # "run" =>
        \A f \in Files : content[f] # "corrupt" /\ Stored(f) # <<>> =>
            /\ ToMetricName(f) \in DOMAIN loaded
            /\ LET ls == loaded[ToMetricName(f)]
               IN  [i \in DOMAIN ls |-> <<ls[i][1], Parse(ls[i][2])>>] = Stored(f)

====
