-------------------------------- MODULE Conf --------------------------------
(***************************************************************************)
(* The configuration file (ricoh/common/cmutil/conf_util.go): InitConfig   *)
(* reads it line by line into one map, Read looks a key up in the section  *)
(* of the run mode and then in the default one.                            *)
(*                                                                         *)
(* Of a line the model keeps what InitConfig asks of it, in its order.  A  *)
(* value is a sequence of words and of the four marks a comment may start  *)
(* with, each a blank or a tab before "#" or "//".  A line is what one     *)
(* call of bufio's ReadLine delivers: one that is longer than its buffer   *)
(* comes in several pieces, each of which InitConfig takes for a line, as  *)
(* it does not look whether there is more (conf_util.go:57).               *)
(***************************************************************************)
EXTENDS Naturals, Sequences, SequencesExt

CONSTANTS Section, Key, Word,
          Default, RunMode, \* the section "default", the key "runmode"
          NoName,           \* the name ""
          NoHeader,         \* no name at all
          Files             \* the files to be read: sequences of lines

Marks == <<"\t#", " #", "\t//", " //">>
Value == Seq(Word \cup ToSet(Marks))

(* hash: "#" comes first.  name: what is between the first "[" and the     *)
(* last "]", wherever they are, NoName when that is all blanks, NoHeader   *)
(* when there is nothing or are no such brackets.  key: what is before the *)
(* first "="; NoName where there is no such thing.  value: what comes      *)
(* after it, trimmed, so that it does not begin with a mark.               *)
Line ==
  [hash : BOOLEAN, name : Section \cup {NoName, NoHeader}, key : Key \cup {NoName},
   value : {v \in Value : v = <<>> \/ v[1] \in Word}]

ASSUME ConfAssumption ==
  /\ Default \in Section /\ RunMode \in Key /\ NoName \notin Section \cup Key
  /\ NoHeader \notin Section \cup {NoName}
  /\ Section \subseteq Word  \* what "runmode" may be set to
  /\ Word \cap ToSet(Marks) = {}
  /\ Files \subseteq Seq(Line)

VARIABLES
  file,   \* constant
  at,     \* the number of lines read
  strcet, \* the section the reader is in, NoName for ""
  Mymap   \* [Section \X Key -> Value], <<>> for no entry

confVars == <<file, at, strcet, Mymap>>

ConfInit ==
  /\ file \in Files /\ at = 0 /\ strcet = NoName
  /\ Mymap = [k \in Section \X Key |-> <<>>]

-----------------------------------------------------------------------------
(* What is left of a value when it is cut at the first of one mark.        *)
CutBefore(value, mark) ==
  LET pos == SelectInSeq(value, LAMBDA w : w = mark)
  IN IF pos = 0 THEN value ELSE SubSeq(value, 1, pos - 1)

(* One mark after the other.                                               *)
WithoutComment(value) ==
  CutBefore(CutBefore(CutBefore(CutBefore(value, Marks[1]), Marks[2]), Marks[3]), Marks[4])

(* Mutant: an entry with brackets in it is an entry.                       *)
ReadLineKeyFirst ==
  /\ at < Len(file) /\ at' = at + 1
  /\ LET line == file[at + 1]
         kept == ~line.hash /\ line.key # NoName /\ strcet # NoName /\ WithoutComment(line.value) # <<>>
     IN /\ strcet' = IF ~line.hash /\ ~kept /\ line.name # NoHeader THEN line.name ELSE strcet
        /\ Mymap' = IF kept THEN [Mymap EXCEPT ![<<strcet, line.key>>] = WithoutComment(line.value)]
                    ELSE Mymap
  /\ UNCHANGED file

(* One round of the loop of InitConfig.                                    *)
ReadLine ==
  /\ at < Len(file) /\ at' = at + 1
  /\ LET line == file[at + 1] IN
     \/ /\ ~line.hash /\ line.name # NoHeader
        /\ strcet' = line.name /\ UNCHANGED Mymap
     \/ /\ ~line.hash /\ line.name = NoHeader
        /\ strcet # NoName /\ line.key # NoName /\ WithoutComment(line.value) # <<>>
        /\ Mymap' = [Mymap EXCEPT ![<<strcet, line.key>>] = WithoutComment(line.value)]
        /\ UNCHANGED strcet
     \/ /\ \/ line.hash
           \/ line.name = NoHeader /\ (strcet = NoName \/ line.key = NoName \/ WithoutComment(line.value) = <<>>)
        /\ UNCHANGED <<strcet, Mymap>>
  /\ UNCHANGED file

ConfSpec == ConfInit /\ [][ReadLine]_confVars

-----------------------------------------------------------------------------
(* A key that is not found in a section is looked up in the default one,   *)
(* under its name together with that of the section: never found there.    *)
ReadByMode(node, key) ==
  IF node \in Section THEN Mymap[<<node, key>>] ELSE <<>>

(* Mutant: what the section of the mode does not have is "".               *)
ReadInMode(key) ==
  LET mode == ReadByMode(Default, RunMode)
  IN IF mode = <<>> THEN ReadByMode(Default, key) ELSE ReadByMode(mode[1], key)

(* mode is one word or, unless runmode is set to more than one, none.      *)
Read(key) ==
  LET mode  == ReadByMode(Default, RunMode)
      value == IF Len(mode) = 1 THEN ReadByMode(mode[1], key) ELSE <<>>
  IN IF value = <<>> THEN ReadByMode(Default, key) ELSE value
-----------------------------------------------------------------------------
(* Properties                                                              *)

ConfTypeOK ==
  /\ file \in Files /\ at \in 0 .. Len(file) /\ strcet \in Section \cup {NoName}
  /\ Mymap \in [Section \X Key -> Value]

(* The section an entry in line i belongs to: that of the last line before *)
(* it that names one; to none after a header whose name is blank.          *)
Names(i) == ~file[i].hash /\ file[i].name # NoHeader
Governing(i) ==
  LET heads == {j \in 1 .. i - 1 : Names(j)}
  IN IF heads = {} THEN NoName ELSE file[CHOOSE j \in heads : \A k \in heads : k <= j].name

(* The lines that set a key of a section, and what they set it to: all     *)
(* words before the first mark of any kind.                                *)
Setting(s, key) ==
  {i \in 1 .. at : /\ ~file[i].hash /\ ~Names(i) /\ Governing(i) = s
                   /\ file[i].key = key /\ file[i].value # <<>>}
UpToMark(value) ==
  SubSeq(value, 1, CHOOSE n \in 0 .. Len(value) :
    /\ \A i \in 1 .. n : value[i] \in Word
    /\ n = Len(value) \/ value[n + 1] \notin Word)

Meant(s, key) ==
  LET lines == Setting(s, key)
  IN IF lines = {} THEN <<>>
     ELSE UpToMark(file[CHOOSE i \in lines : \A j \in lines : j <= i].value)

(* The map holds, for each section and key, what the last line that sets   *)
(* it says, comments cut off at whichever mark comes first, although the   *)
(* marks are looked for one after the other (conf_util.go:92-110).         *)
MapAsMeant == \A s \in Section, key \in Key : Mymap[<<s, key>>] = Meant(s, key)

(* Read falls back to the default section (conf_util.go:139): a key has    *)
(* the value of its run mode's section if that sets it, the default one if *)
(* not, whatever the lookup by mode that is broken in between does.        *)
ReadAsMeant ==
  \A key \in Key :
    LET mode == Meant(Default, RunMode)
    IN Read(key) = IF Len(mode) = 1 /\ mode[1] \in Section /\ Meant(mode[1], key) # <<>>
                   THEN Meant(mode[1], key) ELSE Meant(Default, key)
=============================================================================
