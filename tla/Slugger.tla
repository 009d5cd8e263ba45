------------------------------ MODULE Slugger ------------------------------
(***************************************************************************)
(* slugger.h of livepostsvc/routes: the slug of a post, which names its    *)
(* page on the site.  stagePost computes it from the title, and from the   *)
(* id so that equal titles differ.                                         *)
(*                                                                         *)
(* The two loops over the title are taken a byte at a time; the calls on   *)
(* the whole string that follow are one step each.  Of a byte only the     *)
(* kind matters: "a" is a lower-case letter or a digit, "B" a capital, " " *)
(* white space, "!" any other ASCII byte but the dash, "lead" and "cont"   *)
(* the two bytes of an accented Latin letter in UTF-8 (192..255 and        *)
(* 128..191).  The 24-bit hash of the id is one symbol.                    *)
(***************************************************************************)
EXTENDS Integers, Sequences, FiniteSetsExt

CONSTANTS
    MaxLen,   \* characters of a slug before its hash (30 in stagePost)
    Hash,     \* short_hash of the post's id
    MaxTitle  \* bound: bytes of a title

ASSUME LengthAssumption == MaxLen \in Nat \ {0} /\ MaxTitle \in Nat
ASSUME HashAssumption == Hash # "-"

VARIABLES
    title, \* the argument
    pc,    \* the function that is at work
    at,    \* the index of its loop
    norm,  \* what ascii_normalize has put out
    slug,  \* what slugify_basic has
    base   \* what smart_trim has returned

vars == <<title, pc, at, norm, slug, base>>

Bytes == {"a", "B", " ", "-", "!", "lead", "cont"}
Normals == {"a", "B", " ", "-"}
SlugBytes == {"a", "B", "-"}

Init ==
    /\ title \in UNION {[1 .. n -> Bytes] : n \in 0 .. MaxTitle}
    /\ pc = "ascii_normalize"
    /\ at = 1
    /\ norm = <<>> /\ slug = <<>> /\ base = <<>>

----------------------------------------------------------------------------
\* The table for 192 and above, made for Latin-1, takes the first byte of a
\* two-byte character to a capital; the second is no letter and is left out.
Kept(c) == c \notin {"!", "cont"}
Normal(c) == IF c = "lead" THEN "B" ELSE IF c = "B" THEN "a" ELSE c

ascii_normalize ==
    /\ pc = "ascii_normalize"
    /\ \/ /\ at <= Len(title)
          /\ norm' = IF Kept(title[at]) THEN Append(norm, Normal(title[at])) ELSE norm
          /\ at' = at + 1
          /\ UNCHANGED pc
       \/ /\ at > Len(title)
          /\ pc' = "slugify_basic" /\ at' = 1
          /\ UNCHANGED norm
    /\ UNCHANGED <<title, slug, base>>

IsDash(s, i) == i \in DOMAIN s /\ s[i] = "-"

\* Faulty variant: runs of dashes stay.
Collapsed_Not(s, c) == Append(s, IF c = " " THEN "-" ELSE c)

\* White space becomes a dash, and runs of dashes one.
Collapsed(s, c) ==
    IF c \in {" ", "-"} /\ IsDash(s, Len(s)) THEN s
    ELSE Append(s, IF c = " " THEN "-" ELSE c)

\* No dash stays at an end.
NoEnds(s) ==
    LET t == IF IsDash(s, 1) THEN Tail(s) ELSE s
    IN  IF IsDash(t, Len(t)) THEN SubSeq(t, 1, Len(t) - 1) ELSE t

slugify_basic ==
    /\ pc = "slugify_basic"
    /\ \/ /\ at <= Len(norm)
          /\ slug' = Collapsed(slug, norm[at])
          /\ at' = at + 1
          /\ UNCHANGED pc
       \/ /\ at > Len(norm)
          /\ slug' = NoEnds(slug)
          /\ pc' = "smart_trim"
          /\ UNCHANGED at
    /\ UNCHANGED <<title, norm, base>>

\* The trailing dashes that a hard cut may leave.
StripEnd(s) ==
    SubSeq(s, 1, Max({0} \union {i \in DOMAIN s : s[i] # "-"}))

\* Faulty variant: a dash just behind the limit is not looked at.
Trimmed_OffByOne(s, maxLen) ==
    LET dashes == {i \in 1 .. maxLen : IsDash(s, i)} IN
    IF Len(s) <= maxLen THEN s
    ELSE IF dashes # {} /\ Max(dashes) > 1
         THEN SubSeq(s, 1, Max(dashes) - 1)
         ELSE StripEnd(SubSeq(s, 1, maxLen))

\* The cut is before the last dash at (0-based) position maxLen or less.
Trimmed(s, maxLen) ==
    LET dashes == {i \in 1 .. maxLen + 1 : IsDash(s, i)} IN
    IF Len(s) <= maxLen THEN s
    ELSE IF dashes # {} /\ Max(dashes) > 1
         THEN SubSeq(s, 1, Max(dashes) - 1)
         ELSE StripEnd(SubSeq(s, 1, maxLen))

smart_trim ==
    /\ pc = "smart_trim"
    /\ base' = Trimmed(slug, MaxLen)
    /\ pc' = "done"
    /\ UNCHANGED <<title, at, norm, slug>>

\* What make_slug returns.
make_slug == base \o <<"-", Hash>>

Done == pc = "done" /\ UNCHANGED vars

Next == ascii_normalize \/ slugify_basic \/ smart_trim \/ Done

Spec == Init /\ [][Next]_vars

----------------------------------------------------------------------------
\* The inductive invariant: what each function leaves to the next.
SingleDashes(s) == \A i \in DOMAIN s : IsDash(s, i) => ~IsDash(s, i + 1)

IInv ==
    /\ title \in Seq(Bytes)
    /\ pc \in {"ascii_normalize", "slugify_basic", "smart_trim", "done"}
    /\ at \in Nat \ {0}
    /\ norm \in Seq(Normals)
    /\ slug \in Seq(SlugBytes)
    /\ SingleDashes(slug)
    /\ pc \in {"smart_trim", "done"} => ~IsDash(slug, 1) /\ ~IsDash(slug, Len(slug))
    /\ pc = "done" => base = Trimmed(slug, MaxLen)

\* A slug keeps within the limit, and its words are separated by single
\* dashes, the hash being the last.
SlugIsWellFormed ==
    pc = "done" =>
        /\ Len(make_slug) <= MaxLen + 2
        /\ SingleDashes(make_slug)
        /\ base # <<>> => ~IsDash(make_slug, 1)

\* "avoid cutting mid-word if possible": as many whole words of the title are
\* kept as fit, and a word is cut only if not even the first one fits.
TrimKeepsWholeWords ==
    LET Fits == {n \in 1 .. MaxLen : n = Len(slug) \/ IsDash(slug, n + 1)}
        best == IF Fits # {} THEN Max(Fits) ELSE MaxLen
    IN  pc = "done" /\ slug # <<>> => base = SubSeq(slug, 1, best)
=============================================================================
