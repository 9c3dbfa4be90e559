------------------------------ MODULE FileStore ------------------------------
(***************************************************************************)
(* The file store of sns (controllers/web/file_controller.go): Upload      *)
(* stores the files of a form one after the other under the reading of the *)
(* clock and their names and answers with the list; Download finds the     *)
(* name a file was uploaded under in the name it is stored under.          *)
(*                                                                         *)
(* A name is a sequence of characters, a content a sequence of bytes.  A   *)
(* form is a sequence of fields, a field a sequence of files; opens says   *)
(* whether the part that came in can be read again.                        *)
(***************************************************************************)
EXTENDS Naturals, Sequences, SequencesExt

CONSTANTS Request, Form,
          Char, Byte,
          Sep,    \* the character "_"
          Routed, \* the characters the route of a download admits, "_" is one
          Faults, \* what may fail: "open" a file to write to, "copy" into it
          None

File == [name : Seq(Char) \ {<<>>}, content : Seq(Byte) \ {<<>>}, opens : BOOLEAN]

ASSUME FileStoreAssumption ==
  /\ Faults \subseteq {"open", "copy"}
  /\ Sep \in Routed /\ Routed \subseteq Char
  /\ Form \subseteq Seq(Seq(File))
  /\ Sep \notin Nat \* the clock is written in letters and digits

(* What is listed, and under which url.                                    *)
Url == Seq(Nat \cup Char)
Listed == [name : Seq(Char), url : Url]

ASSUME NoneAssumption ==
  None \notin [url : Url, file : File] \cup [err : BOOLEAN, files : Seq(Listed)]

VARIABLES
  form,         \* constant: what each request sends
  fields,       \* the fields the outer loop has still to visit
  field,        \* what the inner loop has still to visit of its field
  outfileNames, \* the names met so far
  outfile,      \* None or the file being written: its name here and its source
  outfiles,     \* what has been stored, in order
  answer,       \* None, or the response
  clock, disk

vars == <<form, fields, field, outfileNames, outfile, outfiles, answer, clock, disk>>

Init ==
  /\ form \in [Request -> Form]
  /\ fields = [u \in Request |-> DOMAIN form[u]]
  /\ field = [u \in Request |-> <<>>]
  /\ outfileNames = [u \in Request |-> {}]
  /\ outfile = [u \in Request |-> None]
  /\ outfiles = [u \in Request |-> <<>>]
  /\ answer = [u \in Request |-> None]
  /\ clock = 0 /\ disk = <<>>

-----------------------------------------------------------------------------
InLoop(u) == answer[u] = None /\ outfile[u] = None

(* The fields of a form are a map: they are visited in any order.          *)
NextField(u) ==
  /\ InLoop(u) /\ field[u] = <<>>
  /\ \E i \in fields[u] :
       /\ fields' = [fields EXCEPT ![u] = @ \ {i}]
       /\ field' = [field EXCEPT ![u] = form[u][i]]
  /\ UNCHANGED <<form, outfileNames, outfile, outfiles, answer, clock, disk>>

(* Mutant: a name counts as met before its file could be opened.           *)
SkipMet(u) ==
  /\ InLoop(u) /\ field[u] # <<>>
  /\ LET f == Head(field[u]) IN
       /\ ~f.opens \/ f.name \in outfileNames[u]
       /\ outfileNames' = [outfileNames EXCEPT ![u] = @ \cup {f.name}]
  /\ field' = [field EXCEPT ![u] = Tail(@)]
  /\ UNCHANGED <<form, fields, outfile, outfiles, answer, clock, disk>>

(* A file that cannot be opened, or whose name has been met.               *)
Skip(u) ==
  /\ InLoop(u) /\ field[u] # <<>>
  /\ LET f == Head(field[u]) IN ~f.opens \/ f.name \in outfileNames[u]
  /\ field' = [field EXCEPT ![u] = Tail(@)]
  /\ UNCHANGED <<form, fields, outfileNames, outfile, outfiles, answer, clock, disk>>

(* Reads the clock, which another request may do at the same moment.       *)
Clock == {clock, clock + 1}

StoredAs(t, name) == <<t, Sep>> \o name

(* os.OpenFile creates the file; one that is there is left as it is.       *)
Create(u) ==
  /\ InLoop(u) /\ field[u] # <<>>
  /\ LET f == Head(field[u]) IN
       /\ f.opens /\ f.name \notin outfileNames[u]
       /\ outfileNames' = [outfileNames EXCEPT ![u] = @ \cup {f.name}]
       /\ field' = [field EXCEPT ![u] = Tail(@)]
       /\ clock' \in Clock
       /\ LET newName == StoredAs(clock', f.name) IN
          \/ /\ outfile' = [outfile EXCEPT ![u] = [url |-> newName, file |-> f]]
             /\ disk' = [path \in DOMAIN disk \cup {newName} |->
                           IF path \in DOMAIN disk THEN disk[path] ELSE <<>>]
             /\ UNCHANGED answer
          \/ /\ "open" \in Faults \* the list is not given, OK is true all the same
             /\ answer' = [answer EXCEPT ![u] = [err |-> TRUE, files |-> <<>>]]
             /\ UNCHANGED <<outfile, disk>>
  /\ UNCHANGED <<form, fields, outfiles>>

(* What is in a file after n bytes of a content have been written to it.   *)
Over(old, content, n) ==
  SubSeq(content, 1, n) \o SubSeq(old, n + 1, Len(old))

(* io.Copy; that it failed is not looked at.                               *)
Copy(u) ==
  /\ answer[u] = None /\ outfile[u] # None
  /\ LET url == outfile[u].url  f == outfile[u].file IN
       /\ \E n \in IF "copy" \in Faults THEN 0 .. Len(f.content) ELSE {Len(f.content)} :
            disk' = [disk EXCEPT ![url] = Over(@, f.content, n)]
       /\ outfiles' = [outfiles EXCEPT ![u] = Append(@, [name |-> f.name, url |-> url])]
  /\ outfile' = [outfile EXCEPT ![u] = None]
  /\ UNCHANGED <<form, fields, field, outfileNames, answer, clock>>

Answer(u) ==
  /\ InLoop(u) /\ field[u] = <<>> /\ fields[u] = {}
  /\ answer' = [answer EXCEPT ![u] = [err |-> FALSE, files |-> outfiles[u]]]
  /\ UNCHANGED <<form, fields, field, outfileNames, outfile, outfiles, clock, disk>>

Next == \E u \in Request : NextField(u) \/ Skip(u) \/ Create(u) \/ Copy(u) \/ Answer(u)

Spec == Init /\ [][Next]_vars

-----------------------------------------------------------------------------
(* Mutant: the name is what follows the last "_".                          *)
OfferedLast(path) ==
  SubSeq(path, SelectLastInSeq(path, LAMBDA c : c = Sep) + 1, Len(path))

(* The name a stored file is offered under: what follows the first "_".    *)
Offered(path) ==
  SubSeq(path, SelectInSeq(path, LAMBDA c : c = Sep) + 1, Len(path))

(* A download, None where the route or the disk has no such file.  The     *)
(* reading of the clock is written in letters and digits.                  *)
Download(path) ==
  IF ToSet(Tail(path)) \subseteq Routed /\ path \in DOMAIN disk
  THEN [name |-> Offered(path), content |-> disk[path]] ELSE None

-----------------------------------------------------------------------------
(* Properties                                                              *)

FilesOf(sent) == UNION {ToSet(sent[i]) : i \in DOMAIN sent}

TypeOK ==
  /\ form \in [Request -> Form]
  /\ fields \in [Request -> SUBSET Nat] /\ field \in [Request -> Seq(File)]
  /\ outfileNames \in [Request -> SUBSET Seq(Char)]
  /\ outfile \in [Request -> [url : Url, file : File] \cup {None}]
  /\ outfiles \in [Request -> Seq(Listed)]
  /\ answer \in [Request -> [err : BOOLEAN, files : Seq(Listed)] \cup {None}]
  /\ clock \in Nat

(* An upload that is answered without an error lists each name once, with  *)
(* a url of its own, and no name is missing of which one file could be     *)
(* read, in whatever order the fields come and however coarse the clock is *)
(* (file_controller.go:55-59 comes after :51-54 and before :60).           *)
ListedOnce ==
  \A u \in Request : answer[u] # None /\ ~answer[u].err =>
    LET files == answer[u].files IN
      /\ \A i, j \in DOMAIN files :
           i # j => files[i].name # files[j].name /\ files[i].url # files[j].url
      /\ {e.name : e \in ToSet(files)} = {f.name : f \in {g \in FilesOf(form[u]) : g.opens}}

(* The uploads that have written, or are writing, to a stored file.        *)
Writers(url) ==
  {v \in Request : url \in {e.url : e \in ToSet(outfiles[v])} \/ (outfile[v] # None /\ outfile[v].url = url)}

(* Whatever is uploaded next to it or after it, a url that was listed is   *)
(* offered under the name the file was sent under, although the name may   *)
(* contain the "_" Download splits at, and leads to the bytes sent under   *)
(* it, from the first on and without a gap, as long as the route admits    *)
(* its characters and no other upload read the clock at the same moment    *)
(* for the same name.  That they are all there is more than the code says: *)
(* it does not look at what io.Copy returns (file_controller.go:73).       *)
DownloadsAsUploaded ==
  \A u \in Request : answer[u] # None =>
    \A e \in ToSet(answer[u].files) : ToSet(e.name) \subseteq Routed /\ Writers(e.url) = {u} =>
      \E f \in FilesOf(form[u]) : \E n \in 0 .. Len(f.content) :
        /\ f.name = e.name /\ f.opens
        /\ Download(e.url) = [name |-> f.name, content |-> SubSeq(f.content, 1, n)]
=============================================================================
