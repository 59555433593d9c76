----------------------------- MODULE ShortNames -----------------------------
(***************************************************************************)
(* fat32/src/lib.rs and dir_entry.rs, names and paths character by         *)
(* character: what write_file_by_path makes of a path (split_parent, then  *)
(* encode_short_name_8_3 and a comparison of the encoded bytes) and what   *)
(* open_path makes of it (the parts between slashes, compared in upper     *)
(* case with the decoded names).  They are two ways to the same files, and *)
(* the question is whether they lead to the same one.                      *)
(*                                                                         *)
(* The state is the root directory, with empty files only: below one of    *)
(* them open_path stops with an error.                                     *)
(***************************************************************************)
EXTENDS Integers, SequencesExt

CONSTANTS BASE, EXT,    \* 8 and 3
          Paths,        \* the paths used, sequences of characters
          Slots         \* the entries the directory has room for

ASSUME NamesAssumption ==
    {BASE, EXT, Slots} \subseteq Nat \ {0} /\ Paths \subseteq Seq(STRING)

VARIABLES dir,          \* the entries, [base, ext] as they are on disk
          result        \* what the last write returned

vars == <<dir, result>>

(* Characters.  NUL is the byte 0, acute a letter that is not ASCII.       *)
Slash == "/"
Dot   == "."
Space == " "
NUL   == "NUL"
is_ascii(ch) == ch # "acute"
to_ascii_uppercase(ch) == IF ch = "a" THEN "A" ELSE ch

normalize_name(s) == [i \in 1 .. Len(s) |-> to_ascii_uppercase(s[i])]
rfind(s, ch)      == SelectLastInSeq(s, LAMBDA x : x = ch)
From(s, i)        == SubSeq(s, i, Len(s))
-----------------------------------------------------------------------------
(* Paths.  path.split('/').filter(..): the parts that are not empty, from   *)
(* their first character, which has no other before it but a slash, to the *)
(* last one before a slash.                                                *)
Starts(path) ==
    {i \in 1 .. Len(path) : path[i] # Slash /\ (i > 1 => path[i - 1] = Slash)}
Nth(S, n) == CHOOSE i \in S : Cardinality({j \in S : j <= i}) = n
PartFrom(path, i) ==
    SubSeq(path, i, Max({j \in 1 .. Len(path) : \A k \in i .. j : path[k] # Slash}))
split(path) ==
    [n \in 1 .. Cardinality(Starts(path)) |-> PartFrom(path, Nth(Starts(path), n))]

(* split_parent: slashes at the end are dropped, and the rest is cut at    *)
(* its last one.  Its second error, an empty name, cannot occur.           *)
Trimmed(path) == SubSeq(path, 1, SelectLastInSeq(path, LAMBDA x : x # Slash))
HasParent(path) == rfind(Trimmed(path), Slash) # 0
Parent(path) ==
    LET idx == rfind(Trimmed(path), Slash)
    IN  IF idx = 1 THEN <<Slash>> ELSE SubSeq(path, 1, idx - 1)
FileName(path) == From(Trimmed(path), rfind(Trimmed(path), Slash) + 1)
-----------------------------------------------------------------------------
(* Names.  encode_short_name_8_3: the base before the last dot, the rest   *)
(* the extension, each padded with spaces.                                 *)
Base(name) ==
    IF rfind(name, Dot) = 0 THEN name ELSE SubSeq(name, 1, rfind(name, Dot) - 1)
Ext(name) ==
    IF rfind(name, Dot) = 0 THEN <<>> ELSE From(name, rfind(name, Dot) + 1)
EncodableWithDots(name) ==
    /\ Base(name) # <<>> /\ Len(Base(name)) <= BASE /\ Len(Ext(name)) <= EXT
    /\ \A ch \in ToSet(name) : is_ascii(ch)
EncodableAnyLength(name) ==
    /\ Base(name) # <<>>
    /\ ~ Contains(Base(name), Dot) /\ \A ch \in ToSet(name) : is_ascii(ch)
Encodable(name) ==
    /\ Base(name) # <<>> /\ Len(Base(name)) <= BASE /\ Len(Ext(name)) <= EXT
    /\ ~ Contains(Base(name), Dot)
    /\ \A ch \in ToSet(name) : is_ascii(ch)
Padded(s, n) == s \o [i \in 1 .. n - Len(s) |-> Space]
encode_as_typed(name) ==
    [base |-> Padded(Base(name), BASE), ext |-> Padded(Ext(name), EXT)]
encode_short_name_8_3(name) ==
    [base |-> normalize_name(Padded(Base(name), BASE)),
     ext  |-> normalize_name(Padded(Ext(name), EXT))]

(* decode_ascii_trim, and the name DirEntry::parse gives an entry.         *)
decode_ascii(s)      == s
decode_ascii_trim(s) == SubSeq(s, 1, SelectLastInSeq(s, LAMBDA ch : ch # Space))
parse(e) ==
    LET ext == decode_ascii_trim(e.ext)
    IN  decode_ascii_trim(e.base) \o (IF ext = <<>> THEN <<>> ELSE <<Dot>> \o ext)

(* A first byte of 0 ends the directory, also when it is that of a name.   *)
Listed(d) == SubSeq(d, 1, SelectInSeq(Append(d, [base |-> <<NUL>>]),
                                      LAMBDA e : e.base[1] = NUL) - 1)
-----------------------------------------------------------------------------
(* open_path: the place of the entry in the directory, 0 for None, an      *)
(* error as -1 (the entry on the way is an empty file).                    *)
Lookup(d, part) ==
    SelectInSeq(Listed(d), LAMBDA e : normalize_name(parse(e)) = normalize_name(part))
open_parts(d, parts) ==
    IF parts = <<>> \/ Lookup(d, parts[1]) = 0 THEN 0
    ELSE IF Len(parts) > 1 THEN -1 ELSE Lookup(d, parts[1])
open_path(d, path) == open_parts(d, split(path))

(* find_dir_entry_offset_by_short_name.                                    *)
find_dir_entry(d, raw) == SelectInSeq(Listed(d), LAMBDA e : e = raw)

(* write_file_by_path as far as names go.  Creation takes the slot of the  *)
(* end mark.                                                               *)
Absolute(path) == path # <<>> /\ path[1] = Slash /\ path # <<Slash>>
Refusal(path) ==
    IF ~ Absolute(path) \/ ~ HasParent(path) THEN "Other"
    ELSE IF ~ Encodable(FileName(path)) THEN "InvalidName"
    ELSE IF Parent(path) = <<Slash>> THEN "none"
    ELSE CASE open_path(dir, Parent(path)) = 0  -> "PathNotFound"
           [] open_path(dir, Parent(path)) = -1 -> "InvalidCluster"
           [] OTHER                             -> "NotADirectory"
Refused(error) == error # "none" /\ result' = error /\ UNCHANGED dir
Overwrite(raw) ==
    find_dir_entry(dir, raw) # 0 /\ result' = "Ok" /\ UNCHANGED dir
Create(raw) ==
    /\ find_dir_entry(dir, raw) = 0
    /\ \/ Len(Listed(dir)) < Slots /\ dir' = Append(Listed(dir), raw) /\ result' = "Ok"
       \/ Len(Listed(dir)) = Slots /\ result' = "NoSpaceLeft" /\ UNCHANGED dir
write_file_by_path(path, error) ==
    \/ Refused(error)
    \/ /\ error = "none"
       /\ \E raw \in {encode_short_name_8_3(FileName(path))} : Overwrite(raw) \/ Create(raw)

Init == dir = <<>> /\ result = "none"
Next == \E path \in Paths : write_file_by_path(path, Refusal(path))
Spec == Init /\ [][Next]_vars
-----------------------------------------------------------------------------
(* Properties.                                                             *)

TypeOK ==
    /\ Len(dir) <= Slots
    /\ \A i \in 1 .. Len(dir) : Len(dir[i].base) = BASE /\ Len(dir[i].ext) = EXT

(* No two files of the directory answer to one name, in any case.          *)
OneNamePerFile ==
    \A i, j \in 1 .. Len(Listed(dir)) :
        normalize_name(parse(dir[i])) = normalize_name(parse(dir[j])) => i = j

(* The file that a path reads is the file that the path overwrites.  A     *)
(* path that can be read and not written has a blank before the dot, where *)
(* nothing is left of the base, or three slashes or more before the name.  *)
ReadsWhatItWrites ==
    \A path \in Paths : Absolute(path) /\ open_path(dir, path) > 0 =>
        \/ /\ Refusal(path) = "none"
           /\ find_dir_entry(dir, encode_short_name_8_3(FileName(path)))
                 = open_path(dir, path)
        \/ Refusal(path) = "InvalidName" /\ Base(FileName(path)) = <<>>
        \/ Refusal(path) = "PathNotFound" /\ Len(Parent(path)) > 1
                                          /\ ToSet(Parent(path)) = {Slash}

(* What is written under a path is found again under it, if no space comes *)
(* before the dot or at the end, no dot at the end and no NUL at the       *)
(* start; and only then.                                                   *)
EndsIn(s, ch) == s # <<>> /\ Last(s) = ch
Plain(name) ==
    /\ ~ EndsIn(name, Dot) /\ ~ EndsIn(Base(name), Space) /\ ~ EndsIn(Ext(name), Space)
    /\ name[1] # NUL
WrittenIsFound ==
    \A path \in Paths : Refusal(path) = "none" =>
        \A k \in 1 .. Len(dir) : dir[k] = encode_short_name_8_3(FileName(path)) =>
            (open_path(dir, path) = k <=> Plain(FileName(path)))
=============================================================================
