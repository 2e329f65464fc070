--------------------------- MODULE MCPathMatching ---------------------------
(* path_matches evaluated on every pair of a bounded pattern and path. *)
EXTENDS PathMatching, Combinatorics

CONSTANTS
  Characters, \* of which patterns and paths consist
  Cases,      \* pairs of a pattern and a path
  Pending,    \* not evaluated yet
  a, b

ASSUME CasesAssumption == Cases \subseteq Seq(Seq(Characters)) \X Seq(Seq(Characters))
ASSUME PendingAssumption == Pending \notin BOOLEAN

VARIABLES pattern, path, matched
vars == <<pattern, path, matched>>

Init ==
  /\ \E case \in Cases : pattern = case[1] /\ path = case[2]
  /\ matched = Pending

Evaluate ==
  /\ matched = Pending
  /\ matched' = path_matches(pattern, path)
  /\ UNCHANGED <<pattern, path>>

Spec == Init /\ [][Evaluate]_vars

AllCharacters == {a, b, Star}

(* A slash and one segment of up to five characters; a path may contain a   *)
(* literal star.                                                           *)
OneSegment(chars, n) == {<< <<>>, s >> : s \in SeqOf(chars, n)}
SegmentPatterns == OneSegment({a, b, Star}, 5)
SegmentPaths == OneSegment({a, b}, 5) \cup OneSegment({a, Star}, 3)

(* A slash and up to three segments, empty ones included; and "**" and "*"   *)
(* without a slash, as a policy built without SecurityConfig::validate and *)
(* the request target "*" may have them.                                   *)
UpToThree(segments) == {<< <<>> >> \o s : s \in SeqOf(segments, 3)}
DeepPatterns ==
  UpToThree({<<>>, <<a>>, ANY, ANY_DEPTH, <<a, Star>>, <<Star, b>>}) \cup {<<ANY_DEPTH>>, <<ANY>>}
DeepPaths == UpToThree({<<>>, <<a>>, <<b>>, <<a, b>>, ANY_DEPTH}) \cup {<<ANY>>}

(* Up to five segments, for the going back and forth at several "**". *)
UpToFive(segments) == {<< <<>> >> \o s : s \in SeqOf(segments, 5)}

SegmentCases == SegmentPatterns \X SegmentPaths
DeepCases == DeepPatterns \X DeepPaths
LongCases == UpToFive({<<a>>, ANY_DEPTH}) \X UpToFive({<<a>>, <<b>>})
AllCases == SegmentCases \cup DeepCases \cup LongCases

------------------------------------------------------------------------------
(* A path is taken for a match only if the wildcards can really be filled   *)
(* in to give it, however the greedy loop and the shortcuts came to it.    *)
MatchIsSound == matched = TRUE => Denotes(pattern, path)

(* The text after the last star of a segment. *)
Suffix(segment) == Last(split(segment))

(* A path is missed only where a segment of the pattern ends in text that   *)
(* occurs more than once in a segment of the path: "*.json" finds every     *)
(* name with one ".json", and patterns that end in a star find everything. *)
MatchIsComplete ==
  /\ matched # Pending
  /\ Denotes(pattern, path)
  /\ \A i \in DOMAIN pattern, j \in DOMAIN path :
       Contains(pattern[i], Star) /\ Suffix(pattern[i]) # <<>> =>
         \A o1, o2 \in Occurrences(Suffix(pattern[i]), path[j]) : o1 = o2
  => matched

(* The shortcuts of path_matches (policy.rs:117) and of segment_matches     *)
(* only save work: "/**" and equal texts match by the general rules too.   *)
ShortcutsAgree ==
  matched # Pending => matched = matches_parts(split_path(pattern), split_path(path))

(* matches_parts goes back only at "**" (policy.rs:137-143): the calls it    *)
(* takes grow with the length of the path to the power of their number, so *)
(* that the O(n*m) of ARCHITECTURE.md:475 holds up to one "**" per pattern. *)
SearchIsBounded ==
  matched = Pending =>
    LET parts == split_path(pattern)
        m == Len(split_path(path))
        k == Cardinality({i \in DOMAIN parts : parts[i] = ANY_DEPTH})
    IN search(parts, split_path(path)).calls <= (Len(parts) + 1) * choose(m + k, k)

(* A "*" within a segment is a wildcard (policy.rs:101-114): the path       *)
(* matches as soon as the wildcards can be filled in to give it.           *)
MatchIsExact == matched # Pending => (matched <=> Denotes(pattern, path))

==============================================================================
