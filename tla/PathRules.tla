------------------------------ MODULE PathRules ------------------------------
(***************************************************************************)
(* Which names an archive may have and where its links may point:          *)
(* validate_name and validate_symlink of src/utils/mod.rs, one part of the *)
(* path at a time.                                                         *)
(*                                                                         *)
(* A path is the sequence of what is between its slashes (str::split), so  *)
(* `a/' is << "a", "" >>, `/a' is << "", "a" >>, and the empty string is   *)
(* << "" >>.  "odd" stands for a part with a '\' or a NUL in it.  The      *)
(* rules are lexical: no directory is looked at.                           *)
(***************************************************************************)
EXTENDS Integers, FiniteSets, SequencesExt

CONSTANTS
    Plain,        \* ordinary parts
    MaxParts      \* bound: the number of parts of a path

ASSUME PathAssumption ==
    MaxParts \in Nat /\ {"", ".", "..", "odd"} \cap Plain = {}

Parts == {"", ".", "..", "odd"} \cup Plain
Paths == UNION { [1..n -> Parts] : n \in 1..MaxParts }

VARIABLES
    name,        \* the name in the archive
    target,      \* the content of a symlink of that name, once it is read
    dst,         \* the canonical name so far: its parts, and whether the
                 \* last one is followed by a '/'
    depth,       \* the depth of validate_symlink, an Option
    i,           \* the next part
    verdict       \* "name", "target", "accepted", or what was refused

pathVars == << name, target, dst, depth, i, verdict >>

PathInit ==
    /\ name \in Paths
    /\ target = << "" >>
    /\ dst = [parts |-> << >>, slash |-> FALSE]
    /\ depth = {}
    /\ i = 0
    /\ verdict = "name"

RefusePath ==
    /\ verdict' = IF verdict = "name" THEN "badName" ELSE "badTarget"
    /\ UNCHANGED << name, target, dst, depth, i >>

Absolute(path) == Len(path) > 1 /\ path[1] = ""

\* The checks in front of the loop.
StartName ==
    /\ verdict = "name" /\ i = 0
    /\ \/ /\ Absolute(name) \/ "odd" \in {name[k] : k \in DOMAIN name}
          /\ RefusePath
       \/ /\ ~Absolute(name) /\ "odd" \notin {name[k] : k \in DOMAIN name}
          /\ i' = 1
          /\ UNCHANGED << name, target, dst, depth, verdict >>

\* split_inclusive keeps the '/' of all parts but the last, and has no last
\* part when that is empty.
IsLast(k) == k = Len(name)

\* Mutant of Forbidden: a name may end in `..'.
ForbiddenWithin(k) == IF IsLast(k) THEN name[k] = "." ELSE name[k] = ".."

Forbidden(k) == name[k] = ".." \/ (name[k] = "." /\ IsLast(k))

\* Mutant of Dropped: an empty part is kept.
DroppedDots(k) == name[k] = "." \/ (name[k] = "" /\ IsLast(k))

Dropped(k) == name[k] \in {"", "."}

\* One turn of the loop of validate_name.
NamePart ==
    /\ verdict = "name" /\ i \in DOMAIN name
    /\ \/ Forbidden(i) /\ RefusePath
       \/ /\ ~Forbidden(i)
          /\ dst' = IF Dropped(i) THEN dst
                    ELSE [parts |-> Append(dst.parts, name[i]),
                          slash |-> ~IsLast(i)]
          /\ i' = i + 1
          /\ UNCHANGED << name, target, depth, verdict >>

EndName ==
    /\ verdict = "name" /\ i > Len(name)
    /\ \/ dst.parts = << >> /\ RefusePath
       \/ /\ dst.parts # << >>
          /\ verdict' = "target"
          /\ i' = 0
          /\ UNCHANGED << name, target, dst, depth >>

(***************************************************************************)
(* validate_symlink is given the canonical name.  The code looks for odd   *)
(* characters in the name here too, which has none any more.               *)
(***************************************************************************)
Slashes == Len(dst.parts) - (IF dst.slash THEN 0 ELSE 1)

StartTarget ==
    /\ verdict = "target" /\ i = 0
    /\ target' \in Paths
    /\ IF Absolute(target')
       THEN verdict' = "badTarget" /\ UNCHANGED << depth, i >>
       ELSE depth' = {Slashes} /\ i' = 1 /\ UNCHANGED verdict
    /\ UNCHANGED << name, dst >>

\* Mutant of Up: steps up after a step down are allowed.
UpAgain(d) == d = {0}

\* A step up that is not allowed: after a step down, or at the root.
Up(d) == d = {} \/ d = {0}

\* One turn of the loop of validate_symlink.
TargetPart ==
    /\ verdict = "target" /\ i \in DOMAIN target
    /\ \/ target[i] = ".." /\ Up(depth) /\ RefusePath
       \/ /\ target[i] = ".." => ~Up(depth)
          /\ depth' = CASE target[i] \in {"", "."} -> depth
                        [] target[i] = ".." -> {d - 1 : d \in depth}
                        [] OTHER -> {}
          /\ i' = i + 1
          /\ UNCHANGED << name, target, dst, verdict >>

Accept ==
    /\ verdict = "target" /\ i > Len(target)
    /\ verdict' = "accepted"
    /\ UNCHANGED << name, target, dst, depth, i >>

PathNext ==
    \/ StartName \/ NamePart \/ EndName
    \/ StartTarget \/ TargetPart \/ Accept

PathSpec == PathInit /\ [][PathNext]_pathVars

-------------------------------------------------------------------------------
\* The directories and the file that a path names, one after the other.
Named(part) == IF part \in {"", "."} THEN << >> ELSE << part >>

Place(path) == FlattenSeq([k \in DOMAIN path |-> Named(path[k])])

(***************************************************************************)
(* The canonical name is another spelling of the name: it leads to the     *)
(* same place and ends in '/' if the name does (check_name compares the    *)
(* type with the name before it is canonical, FileType::test after), and   *)
(* nothing would be changed by making it canonical again.                  *)
(***************************************************************************)
Canonical ==
    verdict \in {"target", "accepted"} =>
        /\ dst.parts = Place(name)
        /\ dst.slash = (name[Len(name)] = "")
        /\ Place(dst.parts) = dst.parts

(***************************************************************************)
(* A name is refused exactly when it is absolute, has an odd character,    *)
(* goes up, names no entry, or ends in a `.' that would hide its '/'.      *)
(***************************************************************************)
BadName ==
    LET parts == {name[k] : k \in DOMAIN name}
    IN  \/ Absolute(name)
        \/ parts \cap {"odd", ".."} # {}
        \/ Place(name) = << >>
        \/ name[Len(name)] = "."

RefusedNames ==
    /\ verdict = "badName" => BadName
    /\ verdict \in {"target", "accepted", "badTarget"} => ~BadName

(***************************************************************************)
(* A link is accepted exactly when the walk along its target, from the     *)
(* directory of the link, never leaves the root and takes all its steps up *)
(* before the first one down.  Level[k] is the depth after k parts.        *)
(*                                                                         *)
(* That is so when the name of the link has no '/' at its end.  A link can *)
(* have one: a Unicode name that replaces its name is not compared with    *)
(* its type.  validate_symlink counts slashes, and so takes this link to   *)
(* lie one level deeper than it does: its walk may take one step out of    *)
(* the root.                                                               *)
(***************************************************************************)
Rise(part) == CASE part \in {"", "."} -> 0 [] part = ".." -> -1 [] OTHER -> 1

Levels(path, start) ==
    LET level[k \in 0..Len(path)] ==
            IF k = 0 THEN start ELSE level[k - 1] + Rise(path[k])
    IN  level

Level == Levels(target, Len(dst.parts) - 1)

Floor == IF dst.slash THEN -1 ELSE 0

GoodTarget ==
    /\ ~Absolute(target)
    /\ \A k \in 0..Len(target) : Level[k] >= Floor
    /\ \A j, k \in DOMAIN target :
          j < k /\ target[j] \notin {"", ".", ".."} => target[k] # ".."

LinkRule ==
    /\ verdict = "accepted" => GoodTarget
    /\ verdict = "badTarget" => ~GoodTarget
===============================================================================
