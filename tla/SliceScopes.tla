----------------------------- MODULE SliceScopes -----------------------------
(***************************************************************************)
(* The write allowlists of slices: what a glob matches (globMatches in     *)
(* src/util/glob.ts) and when the scheduler takes two allowlists to        *)
(* overlap (allowlistsOverlap in src/pipeline/slice-scheduler.ts).         *)
(*                                                                         *)
(* A path is a sequence of characters, and a glob one of what globMatches  *)
(* reads it as: characters, "*", "**" and "**/". "\n" stands for every     *)
(* line terminator, which "." does not match.                              *)
(***************************************************************************)
EXTENDS Naturals, Sequences, SequencesExt

Stars == {"*", "**", "**/"}

\* What a part of a glob stands for: the text of its regular expression matches.
StandsFor(part, text) ==
  \/ part \notin Stars /\ text = <<part>>
  \/ part = "*" /\ \A i \in DOMAIN text : text[i] # "/"
  \/ part = "**" /\ \A i \in DOMAIN text : text[i] # "\n"
  \/ part = "**/" /\ (text = <<>> \/ (Last(text) = "/" /\ \A i \in DOMAIN text : text[i] # "\n"))

\* The path can be cut into texts that the parts of the glob stand for, one after the other.
GlobMatches(glob, path) ==
  \E cut \in [0..Len(glob) -> 0..Len(path)] :
    /\ cut[0] = 0 /\ cut[Len(glob)] = Len(path)
    /\ \A i \in 1..Len(glob) :
         cut[i - 1] <= cut[i] /\ StandsFor(glob[i], SubSeq(path, cut[i - 1] + 1, cut[i]))

\* isAllowed of one spelling of a path (a submodule's is tried with "/" after it as well),
\* without the forbidden scope, which only takes from it.
Allows(allowlist, path) == \E glob \in allowlist : GlobMatches(glob, path)

\* Where literalPrefix stops, though "?" and "[" stand for themselves in a glob.
Wildcards == Stars \cup {"?", "["}

LiteralLength(glob) ==
  CHOOSE n \in 0..Len(glob) :
    /\ \A i \in 1..n : glob[i] \notin Wildcards
    /\ n < Len(glob) => glob[n + 1] \in Wildcards

LiteralPrefix(glob) == SubSeq(glob, 1, LiteralLength(glob))

GlobsMayMeet(left, right) ==
  \/ left = right
  \/ GlobMatches(left, LiteralPrefix(right))
  \/ GlobMatches(right, LiteralPrefix(left))
  \/ IsPrefix(LiteralPrefix(right), LiteralPrefix(left))
  \/ IsPrefix(LiteralPrefix(left), LiteralPrefix(right))

AllowlistsOverlap(left, right) == \E l \in left, r \in right : GlobsMayMeet(l, r)
=============================================================================
