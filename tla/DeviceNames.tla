----------------------------- MODULE DeviceNames -----------------------------
(***************************************************************************)
(* How open() finds whom a path belongs to: alt_find_dev.c looks for a     *)
(* device of that very name, alt_find_file.c for a file system mounted     *)
(* above it.  The lists grow at their head (alt_llist_insert).             *)
(*                                                                         *)
(* A name is a sequence of characters, which memory follows by End; what   *)
(* comes after End is nobody's, and alt_find_file may read it.             *)
(***************************************************************************)
EXTENDS Integers, Sequences, SequencesExt

CONSTANTS
  Letters,      \* the characters of names, besides "/"
  Stray,        \* what memory may hold after the end of a name
  Names,        \* what devices and file systems are registered as
  Paths,        \* what is opened
  MaxListed     \* bound: registrations in each list

End == "end"

\* A name to register is not empty: alt_find_file looks at its last character.
ASSUME NamesAssumption ==
  /\ {"/", End} \cap Letters = {}
  /\ Names \subseteq Seq(Letters \union {"/"}) \ {<<>>}
  /\ Paths \subseteq Seq(Letters \union {"/"})
  /\ MaxListed \in Nat

VARIABLES dev_list, fs_list   \* alt_dev_list, alt_fs_list

namesVars == <<dev_list, fs_list>>

NULL == <<>>

NamesInit == dev_list = <<>> /\ fs_list = <<>>

Conflict(name) == name \in Range(dev_list \o fs_list)

\* alt_fs_reg: a name that conflicts is undefined behaviour, says its comment.
RegisterFs(name) ==
  /\ Len(fs_list) < MaxListed
  /\ ~Conflict(name)
  /\ fs_list' = <<name>> \o fs_list
  /\ UNCHANGED dev_list

\* alt_dev_reg, that is alt_dev_llist_insert
RegisterDev(name) ==
  /\ Len(dev_list) < MaxListed
  /\ ~Conflict(name)
  /\ dev_list' = <<name>> \o dev_list
  /\ UNCHANGED fs_list

\* The byte at offset i of a string whose memory goes on with junk.
ByteAt(s, i, junk) ==
  IF i < Len(s) THEN s[i + 1] ELSE IF i = Len(s) THEN End ELSE junk

\* memcmp(s, t, n) == 0
SameBytes(s, t, n, junk) ==
  \A i \in 0 .. n - 1 : ByteAt(s, i, junk) = ByteAt(t, i, junk)

First(list, Matches(_)) ==
  IF \E i \in DOMAIN list : Matches(list[i])
    THEN list[CHOOSE i \in DOMAIN list :
                /\ Matches(list[i])
                /\ \A j \in 1 .. i - 1 : ~Matches(list[j])]
    ELSE NULL

\* alt_find_dev: strlen(name) + 1 bytes are compared.
FindDev(p, junk) ==
  LET Matches(name) == SameBytes(name, p, Len(p) + 1, junk)
  IN First(dev_list, Matches)

\* The length of a mount point, without its last "/".
MountLength(name) == IF Last(name) = "/" THEN Len(name) - 1 ELSE Len(name)

\* Mutant: the character after the mount point is not looked at.
FindFile_AnyPrefix(p, junk) ==
  LET Matches(name) == SameBytes(name, p, MountLength(name), junk)
  IN First(fs_list, Matches)

\* alt_find_file: name[len], which may lie beyond the end of name, comes first.
FindFile(p, junk) ==
  LET Matches(name) ==
        /\ ByteAt(p, MountLength(name), junk) \in {"/", End}
        /\ SameBytes(name, p, MountLength(name), junk)
  IN First(fs_list, Matches)

\* alt_open: the devices come first.
Open(p, junk) ==
  IF FindDev(p, junk) # NULL THEN FindDev(p, junk) ELSE FindFile(p, junk)

NamesNext == \E name \in Names : RegisterFs(name) \/ RegisterDev(name)

-----------------------------------------------------------------------------
(* Properties *)

\* Where a file system is mounted, and what lies there: the mount point itself
\* and every path that goes on with a "/".
Mount(name) == IF Last(name) = "/" THEN Front(name) ELSE name
Below(p, name) == p = Mount(name) \/ IsPrefix(Append(Mount(name), "/"), p)

\* A path is opened by the device of that name, or else by the file system
\* above it that comes first in the list, or by none: never by "/a" when it is
\* "/ab", and whatever bytes the search reads after the end of the path.
OpensItsOwner ==
  \A p \in Paths, junk \in Stray :
    LET owners == {i \in DOMAIN fs_list : Below(p, fs_list[i])}
    IN Open(p, junk) = IF p \in Range(dev_list) THEN p
                       ELSE IF owners # {} THEN fs_list[Min(owners)] ELSE NULL

-----------------------------------------------------------------------------
(* Why the property holds *)

\* What is listed is a name that may be registered.
NamesInv == dev_list \in Seq(Names) /\ fs_list \in Seq(Names)
=============================================================================
