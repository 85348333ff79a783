--------------------------- MODULE VersionCompare ---------------------------
(***************************************************************************)
(* backend/utils/version_compare.py: when two records name the same        *)
(* software, and which of two versions is older.                           *)
(*                                                                         *)
(* A software name is a sequence: the words of the name as one element,    *)
(* then the suffixes normalize_software_name knows, "arch" for "(64-bit)"  *)
(* and "version" for a trailing dotted number.  Case and white space are   *)
(* left out.  A version is the sequence of its numeric segments, or a      *)
(* member of Unparseable.                                                  *)
(***************************************************************************)
EXTENDS Integers, Sequences

CONSTANTS
    Unparseable, \* version strings parse_version rejects
    NoPublisher  \* stands for a missing or blank publisher

\* The name without its last element, if that is the given suffix.
WithoutSuffix(name, suffix) ==
    IF name # <<>> /\ name[Len(name)] = suffix THEN SubSeq(name, 1, Len(name) - 1) ELSE name

\* One architecture suffix goes first, then one version suffix.
normalize_software_name(name) == WithoutSuffix(WithoutSuffix(name, "arch"), "version")

software_identity_matches(a, b) ==
    /\ normalize_software_name(a.name) = normalize_software_name(b.name)
    /\ NoPublisher \in {a.publisher, b.publisher} \/ a.publisher = b.publisher

\* Segment i of v, with v padded with zeros on the right.
Segment(v, i) == IF i \in DOMAIN v THEN v[i] ELSE 0

Older(v, w) ==
    \E i \in DOMAIN v \cup DOMAIN w :
        /\ Segment(v, i) < Segment(w, i)
        /\ \A j \in 1..i-1 : Segment(v, j) = Segment(w, j)

compare_versions(v, w) ==
    IF v \in Unparseable \/ w \in Unparseable THEN "None"
    ELSE IF Older(v, w) THEN "older"
    ELSE IF Older(w, v) THEN "newer"
    ELSE "equal"

same_version(v, w) ==
    \/ compare_versions(v, w) = "equal"
    \/ compare_versions(v, w) = "None" /\ v = w

\* Python's order on tuples, where a proper prefix comes first.
TupleLess(v, w) ==
    \/ \E i \in DOMAIN v \cap DOMAIN w :
            v[i] < w[i] /\ \A j \in 1..i-1 : v[j] = w[j]
    \/ Len(v) < Len(w) /\ \A j \in DOMAIN v : v[j] = w[j]

=============================================================================
