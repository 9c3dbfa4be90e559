----------------------------- MODULE FilesProofs -----------------------------
(***************************************************************************)
(* Theorems about FileStore, for any number of uploads beside each other,  *)
(* whatever they send: the types, that each name is listed once, that a    *)
(* url leads to what was sent; and about Conf, for all files: the map says *)
(* what the file says and Read falls back as it is meant to.               *)
(***************************************************************************)
EXTENDS FileStore, Conf, SequenceTheorems, WellFoundedInduction, TLAPS

-----------------------------------------------------------------------------
(* The inductive invariant, one upload at a time.                          *)
NamesOf(files) == {files[i].name : i \in 1 .. Len(files)}
Readable(u) == {f.name : f \in {g \in FilesOf(form[u]) : g.opens}}
Pending(u) == IF outfile[u] = None THEN {} ELSE {outfile[u].file.name}

Stored(url, name) == \E t \in Nat : url = StoredAs(t, name)

(* A file that can be read has had its name met, or is still to come.      *)
ToCome(u) ==
  \A f \in FilesOf(form[u]) : f.opens =>
    \/ f.name \in outfileNames[u]
    \/ \E i \in 1 .. Len(field[u]) : field[u][i] = f
    \/ \E k \in fields[u] : f \in ToSet(form[u][k])

PlacesInv(u) ==
  /\ fields[u] \subseteq DOMAIN form[u]
  /\ \A i \in 1 .. Len(field[u]) : field[u][i] \in FilesOf(form[u])

(* What has been stored, or is being, has a name of its own and a url made *)
(* of it.                                                                  *)
OwnInv(u) ==
  /\ \A i, j \in 1 .. Len(outfiles[u]) : i # j => outfiles[u][i].name # outfiles[u][j].name
  /\ \A i \in 1 .. Len(outfiles[u]) : Stored(outfiles[u][i].url, outfiles[u][i].name)
  /\ outfile[u] # None => /\ Stored(outfile[u].url, outfile[u].file.name)
                          /\ outfile[u].file.name \notin NamesOf(outfiles[u])

(* The names met are those of what has been stored, as long as there is no *)
(* answer, and they can all be read.                                       *)
MetInv(u) ==
  /\ answer[u] = None => outfileNames[u] = NamesOf(outfiles[u]) \cup Pending(u) /\ ToCome(u)
  /\ outfileNames[u] \subseteq Readable(u)

DoneInv(u) ==
  answer[u] # None /\ ~answer[u].err =>
    answer[u].files = outfiles[u] /\ NamesOf(outfiles[u]) = Readable(u)

UploadInv(u) == PlacesInv(u) /\ OwnInv(u) /\ MetInv(u) /\ DoneInv(u)

Inv == TypeOK /\ \A u \in Request : UploadInv(u)

-----------------------------------------------------------------------------
(* Lists.                                                                  *)
LEMMA HeadAndTail ==
  ASSUME NEW S, NEW s \in Seq(S), s # <<>>
  PROVE  /\ Head(s) \in S /\ Tail(s) \in Seq(S) /\ 1 \in 1 .. Len(s) /\ Head(s) = s[1]
         /\ \A i \in 1 .. Len(Tail(s)) : i + 1 \in 1 .. Len(s) /\ Tail(s)[i] = s[i + 1]
         /\ \A i \in 1 .. Len(s) : s[i] = Head(s) \/ \E j \in 1 .. Len(Tail(s)) : Tail(s)[j] = s[i]
<1>1. Len(s) \in Nat \ {0} /\ Head(s) = s[1]
  BY EmptySeq
<1>2. Tail(s) \in Seq(S) /\ Len(Tail(s)) = Len(s) - 1
  BY HeadTailProperties
<1>3. \A i \in 1 .. Len(s) - 1 : Tail(s)[i] = s[i + 1]
  BY HeadTailProperties
<1>4. ASSUME NEW i \in 1 .. Len(s), i # 1 PROVE i - 1 \in 1 .. Len(s) - 1 /\ Tail(s)[i - 1] = s[i]
  BY <1>1, <1>3, <1>4
<1>5. Head(s) \in S /\ 1 \in 1 .. Len(s)
  BY <1>1
<1>6. ASSUME NEW i \in 1 .. Len(Tail(s)) PROVE i + 1 \in 1 .. Len(s) /\ Tail(s)[i] = s[i + 1]
  BY <1>1, <1>2, <1>3, <1>6
<1>7. ASSUME NEW i \in 1 .. Len(s)
      PROVE  s[i] = Head(s) \/ \E j \in 1 .. Len(Tail(s)) : Tail(s)[j] = s[i]
  BY <1>1, <1>2, <1>4
<1>8. QED BY <1>1, <1>2, <1>5, <1>6, <1>7

(* Urls made of different names are different.                             *)
LEMMA StoredApart ==
  ASSUME NEW n \in Seq(Char), NEW m \in Seq(Char), NEW url, Stored(url, n), Stored(url, m)
  PROVE  n = m
<1>1. PICK t \in Nat : url = <<t, Sep>> \o n
  BY DEF Stored, StoredAs
<1>2. PICK r \in Nat : url = <<r, Sep>> \o m
  BY DEF Stored, StoredAs
<1>3. Sep \in Char
  BY FileStoreAssumption
<1>4. /\ <<t, Sep>> \in Seq(Nat \cup Char) /\ Len(<<t, Sep>>) = 2
      /\ <<r, Sep>> \in Seq(Nat \cup Char) /\ Len(<<r, Sep>>) = 2
      /\ n \in Seq(Nat \cup Char) /\ m \in Seq(Nat \cup Char)
  BY <1>3
<1>5. /\ Len(url) = 2 + Len(n) /\ Len(url) = 2 + Len(m) /\ Len(n) \in Nat /\ Len(m) \in Nat
      /\ \A i \in 1 .. 2 + Len(n) : url[i] = IF i <= 2 THEN <<t, Sep>>[i] ELSE n[i - 2]
      /\ \A i \in 1 .. 2 + Len(m) : url[i] = IF i <= 2 THEN <<r, Sep>>[i] ELSE m[i - 2]
  BY <1>1, <1>2, <1>4, ConcatProperties
<1>6. Len(n) = Len(m)
  BY <1>5
<1>7. ASSUME NEW i \in 1 .. Len(n) PROVE n[i] = m[i]
  <2>1. i + 2 \in 1 .. 2 + Len(n) /\ ~(i + 2 <= 2) /\ (i + 2) - 2 = i
    BY <1>5
  <2>2. QED BY <1>5, <1>6, <2>1
<1>8. QED BY <1>6, <1>7, SeqEqual

(* The files of a form.                                                    *)
LEMMA FormFacts ==
  ASSUME NEW sent \in Form, NEW k \in DOMAIN sent
  PROVE  /\ sent[k] \in Seq(File) /\ k \in Nat
         /\ \A i \in 1 .. Len(sent[k]) : sent[k][i] \in FilesOf(sent)
         /\ \A f \in ToSet(sent[k]) : \E i \in 1 .. Len(sent[k]) : sent[k][i] = f
<1>1. sent \in Seq(Seq(File)) /\ k \in 1 .. Len(sent) /\ Len(sent) \in Nat
  BY FileStoreAssumption
<1>2. sent[k] \in Seq(File)
  BY <1>1
<1>3. DOMAIN sent[k] = 1 .. Len(sent[k])
  BY <1>2
<1>4. QED BY <1>1, <1>2, <1>3 DEF FilesOf, ToSet

-----------------------------------------------------------------------------
(* The steps.                                                              *)

(* A step of one upload leaves the others alone.                           *)
LEMMA Others ==
  ASSUME NEW u \in Request, UploadInv(u),
         UNCHANGED <<form, fields[u], field[u], outfileNames[u], outfile[u], outfiles[u], answer[u]>>
  PROVE  UploadInv(u)'
BY DEF UploadInv, PlacesInv, OwnInv, MetInv, DoneInv, ToCome, Pending, Readable

(* The first file of a field may be left when its name has been met or it  *)
(* cannot be read.                                                         *)
LEMMA PassedOver ==
  ASSUME NEW u \in Request, ToCome(u), UNCHANGED <<form, fields>>,
         outfileNames[u] \subseteq outfileNames'[u],
         NEW f, f.opens => f.name \in outfileNames'[u],
         \A i \in 1 .. Len(field[u]) :
           field[u][i] = f \/ \E j \in 1 .. Len(field'[u]) : field'[u][j] = field[u][i]
  PROVE  ToCome(u)'
<1>1. SUFFICES ASSUME NEW g \in FilesOf(form[u]), g.opens, g.name \notin outfileNames'[u]
               PROVE  \/ \E i \in 1 .. Len(field'[u]) : field'[u][i] = g
                      \/ \E k \in fields[u] : g \in ToSet(form[u][k])
  BY DEF ToCome
<1>2. CASE \E i \in 1 .. Len(field[u]) : field[u][i] = g
  <2>1. PICK i \in 1 .. Len(field[u]) : field[u][i] = g
    BY <1>2
  <2>2. g # f
    BY <1>1
  <2>3. QED BY <2>1, <2>2
<1>3. QED BY <1>1, <1>2 DEF ToCome

LEMMA NextFieldStep ==
  ASSUME Inv, NEW w \in Request, NextField(w)
  PROVE  Inv'
<1>1. PICK k \in fields[w] : /\ fields' = [fields EXCEPT ![w] = @ \ {k}]
                             /\ field' = [field EXCEPT ![w] = form[w][k]]
  BY DEF NextField
<1>2. TypeOK /\ UploadInv(w) /\ form[w] \in Form /\ field[w] = <<>> /\ answer[w] = None
  BY DEF Inv, TypeOK, NextField, InLoop
<1>3. UNCHANGED <<form, outfileNames, outfile, outfiles, answer, clock>>
  BY DEF NextField
<1>4. /\ form[w][k] \in Seq(File)
      /\ \A i \in 1 .. Len(form[w][k]) : form[w][k][i] \in FilesOf(form[w])
      /\ \A f \in ToSet(form[w][k]) : \E i \in 1 .. Len(form[w][k]) : form[w][k][i] = f
  BY <1>2, FormFacts DEF UploadInv, PlacesInv
<1>5. TypeOK'
  BY <1>1, <1>2, <1>3, <1>4 DEF TypeOK
<1>6. fields'[w] = fields[w] \ {k} /\ field'[w] = form[w][k]
  BY <1>1, <1>2 DEF TypeOK
<1>7. UploadInv(w)'
  <2>1. PlacesInv(w)'
    BY <1>2, <1>3, <1>4, <1>6 DEF UploadInv, PlacesInv
  <2>2. ToCome(w)'
    <3>1. SUFFICES ASSUME NEW f \in FilesOf(form[w]), f.opens, f.name \notin outfileNames[w]
                   PROVE  \/ \E i \in 1 .. Len(form[w][k]) : form[w][k][i] = f
                          \/ \E j \in fields[w] \ {k} : f \in ToSet(form[w][j])
      BY <1>3, <1>6 DEF ToCome
    <3>2. PICK j \in fields[w] : f \in ToSet(form[w][j])
      BY <1>2, <3>1, EmptySeq DEF UploadInv, MetInv, ToCome
    <3>3. QED BY <1>4, <3>2
  <2>3. QED BY <1>2, <1>3, <2>1, <2>2
            DEF UploadInv, OwnInv, MetInv, DoneInv, Pending, Readable
<1>8. ASSUME NEW u \in Request, u # w PROVE UploadInv(u)'
  <2>1. fields'[u] = fields[u] /\ field'[u] = field[u]
    BY <1>1, <1>2, <1>8 DEF TypeOK
  <2>2. QED BY <1>3, <2>1, Others DEF Inv
<1>9. QED BY <1>5, <1>7, <1>8 DEF Inv

LEMMA SkipStep ==
  ASSUME Inv, NEW w \in Request, Skip(w)
  PROVE  Inv'
<1> DEFINE f == Head(field[w])
<1>1. /\ TypeOK /\ UploadInv(w) /\ field[w] \in Seq(File) /\ field[w] # <<>> /\ answer[w] = None
      /\ ~f.opens \/ f.name \in outfileNames[w]
  BY DEF Inv, TypeOK, Skip, InLoop
<1>2. field' = [field EXCEPT ![w] = Tail(@)]
      /\ UNCHANGED <<form, fields, outfileNames, outfile, outfiles, answer, clock>>
  BY DEF Skip
<1>3. /\ Tail(field[w]) \in Seq(File)
      /\ \A i \in 1 .. Len(Tail(field[w])) : i + 1 \in 1 .. Len(field[w])
                                             /\ Tail(field[w])[i] = field[w][i + 1]
      /\ \A i \in 1 .. Len(field[w]) :
           field[w][i] = f \/ \E j \in 1 .. Len(Tail(field[w])) : Tail(field[w])[j] = field[w][i]
  BY <1>1, HeadAndTail
<1>4. TypeOK' /\ field'[w] = Tail(field[w])
  BY <1>1, <1>2, <1>3 DEF TypeOK
<1> HIDE DEF f
<1>5. UploadInv(w)'
  <2>1. PlacesInv(w)'
    BY <1>1, <1>2, <1>3, <1>4 DEF UploadInv, PlacesInv
  <2>2. ToCome(w)'
    <3>1. ToCome(w) /\ (f.opens => f.name \in outfileNames'[w])
      BY <1>1, <1>2 DEF UploadInv, MetInv
    <3>2. UNCHANGED <<form, fields>> /\ outfileNames[w] \subseteq outfileNames'[w]
      BY <1>2
    <3>3. \A i \in 1 .. Len(field[w]) :
            field[w][i] = f \/ \E j \in 1 .. Len(field'[w]) : field'[w][j] = field[w][i]
      BY <1>3, <1>4
    <3>4. QED BY <3>1, <3>2, <3>3, PassedOver
  <2>3. QED BY <1>1, <1>2, <2>1, <2>2
            DEF UploadInv, OwnInv, MetInv, DoneInv, Pending, Readable
<1>6. ASSUME NEW u \in Request, u # w PROVE UploadInv(u)'
  <2>1. field'[u] = field[u]
    BY <1>1, <1>2, <1>6 DEF TypeOK
  <2>2. QED BY <1>2, <2>1, Others DEF Inv
<1>7. QED BY <1>4, <1>5, <1>6 DEF Inv

LEMMA CreateStep ==
  ASSUME Inv, NEW w \in Request, Create(w)
  PROVE  Inv'
<1> DEFINE f == Head(field[w])
           url == StoredAs(clock', f.name)
           failed == [err |-> TRUE, files |-> <<>>]
<1>1. /\ TypeOK /\ UploadInv(w) /\ field[w] \in Seq(File) /\ field[w] # <<>>
      /\ answer[w] = None /\ outfile[w] = None /\ f.opens /\ f.name \notin outfileNames[w]
  BY DEF Inv, TypeOK, Create, InLoop
<1>2. /\ outfileNames' = [outfileNames EXCEPT ![w] = @ \cup {f.name}]
      /\ field' = [field EXCEPT ![w] = Tail(@)]
      /\ clock' \in {clock, clock + 1}
      /\ \/ outfile' = [outfile EXCEPT ![w] = [url |-> url, file |-> f]] /\ UNCHANGED answer
         \/ answer' = [answer EXCEPT ![w] = failed] /\ UNCHANGED outfile
      /\ UNCHANGED <<form, fields, outfiles>>
  BY DEF Create, Clock
<1>3. /\ f \in File /\ Tail(field[w]) \in Seq(File) /\ 1 \in 1 .. Len(field[w]) /\ f = field[w][1]
      /\ \A i \in 1 .. Len(Tail(field[w])) : i + 1 \in 1 .. Len(field[w])
                                             /\ Tail(field[w])[i] = field[w][i + 1]
      /\ \A i \in 1 .. Len(field[w]) :
           field[w][i] = f \/ \E j \in 1 .. Len(Tail(field[w])) : Tail(field[w])[j] = field[w][i]
  BY <1>1, HeadAndTail
<1>4. f \in FilesOf(form[w]) /\ f.name \in Readable(w)
  <2>1. f \in FilesOf(form[w])
    BY <1>1, <1>3 DEF UploadInv, PlacesInv
  <2>2. QED BY <1>1, <2>1 DEF Readable
<1> HIDE DEF f
<1>5. f.name \in Seq(Char) /\ clock' \in Nat
  BY <1>1, <1>2, <1>3 DEF TypeOK, File
<1>6. url \in Url
  <2>1. <<clock', Sep>> \in Seq(Nat \cup Char) /\ f.name \in Seq(Nat \cup Char)
    BY <1>5, FileStoreAssumption
  <2>2. QED BY <2>1, ConcatProperties DEF StoredAs, Url
<1>7. Stored(url, f.name)
  BY <1>5 DEF Stored
<1> HIDE DEF url
<1>8. [url |-> url, file |-> f] \in [url : Url, file : File]
  BY <1>3, <1>6
<1>9. failed \in [err : BOOLEAN, files : Seq(Listed)]
  BY EmptySeq
<1>10. TypeOK'
  <2>1. outfileNames' \in [Request -> SUBSET Seq(Char)]
    BY <1>1, <1>2, <1>5 DEF TypeOK
  <2>2. field' \in [Request -> Seq(File)]
    BY <1>1, <1>2, <1>3 DEF TypeOK
  <2>3. outfile' \in [Request -> [url : Url, file : File] \cup {None}]
    BY <1>1, <1>2, <1>8 DEF TypeOK
  <2>4. answer' \in [Request -> [err : BOOLEAN, files : Seq(Listed)] \cup {None}]
    BY <1>1, <1>2, <1>9 DEF TypeOK
  <2>5. QED BY <1>1, <1>2, <1>5, <2>1, <2>2, <2>3, <2>4 DEF TypeOK
<1>11. outfileNames'[w] = outfileNames[w] \cup {f.name} /\ field'[w] = Tail(field[w])
  BY <1>1, <1>2 DEF TypeOK
<1>12. PlacesInv(w)'
  BY <1>1, <1>2, <1>3, <1>11 DEF UploadInv, PlacesInv
<1>13. ToCome(w)'
  <2>1. ToCome(w) /\ f.name \in outfileNames'[w]
    BY <1>1, <1>11 DEF UploadInv, MetInv
  <2>2. UNCHANGED <<form, fields>> /\ outfileNames[w] \subseteq outfileNames'[w]
    BY <1>2, <1>11
  <2>3. \A i \in 1 .. Len(field[w]) :
          field[w][i] = f \/ \E j \in 1 .. Len(field'[w]) : field'[w][j] = field[w][i]
    BY <1>3, <1>11
  <2>4. QED BY <2>1, <2>2, <2>3, PassedOver
<1>14. f.name \notin NamesOf(outfiles[w]) /\ outfileNames[w] = NamesOf(outfiles[w])
  BY <1>1 DEF UploadInv, MetInv, Pending
<1>15. outfileNames'[w] \subseteq Readable(w)'
  BY <1>1, <1>2, <1>4, <1>11 DEF UploadInv, MetInv, Readable
<1>16. UploadInv(w)'
  <2>1. CASE outfile' = [outfile EXCEPT ![w] = [url |-> url, file |-> f]] /\ UNCHANGED answer
    <3>1. outfile'[w] = [url |-> url, file |-> f] /\ outfile'[w] # None
      BY <1>1, <1>8, <2>1, NoneAssumption DEF TypeOK
    <3>2. outfile'[w].url = url /\ outfile'[w].file = f
      BY <3>1
    <3>3. OwnInv(w)'
      BY <1>1, <1>2, <1>7, <1>14, <3>2 DEF UploadInv, OwnInv
    <3>4. MetInv(w)'
      BY <1>2, <1>11, <1>13, <1>14, <1>15, <3>1, <3>2 DEF MetInv, Pending
    <3>5. DoneInv(w)'
      BY <1>1, <2>1 DEF DoneInv
    <3>6. QED BY <1>12, <3>3, <3>4, <3>5 DEF UploadInv
  <2>2. CASE answer' = [answer EXCEPT ![w] = failed] /\ UNCHANGED outfile
    <3>1. answer'[w] = failed /\ failed # None
      BY <1>1, <1>9, <2>2, NoneAssumption DEF TypeOK
    <3>2. OwnInv(w)' /\ DoneInv(w)' /\ MetInv(w)'
      BY <1>1, <1>2, <1>15, <2>2, <3>1 DEF UploadInv, OwnInv, DoneInv, MetInv
    <3>3. QED BY <1>12, <3>2 DEF UploadInv
  <2>3. QED BY <1>2, <2>1, <2>2
<1>17. ASSUME NEW u \in Request, u # w PROVE UploadInv(u)'
  <2>1. /\ field'[u] = field[u] /\ outfileNames'[u] = outfileNames[u]
        /\ outfile'[u] = outfile[u] /\ answer'[u] = answer[u]
    BY <1>1, <1>2, <1>17 DEF TypeOK
  <2>2. QED BY <1>2, <2>1, Others DEF Inv
<1>18. QED BY <1>10, <1>16, <1>17 DEF Inv

LEMMA CopyStep ==
  ASSUME Inv, NEW w \in Request, Copy(w)
  PROVE  Inv'
<1> DEFINE e == [name |-> outfile[w].file.name, url |-> outfile[w].url]
           old == outfiles[w]
           new == Append(old, e)
<1>1. TypeOK /\ UploadInv(w) /\ answer[w] = None /\ outfile[w] # None
  BY DEF Inv, Copy
<1>2. /\ outfiles' = [outfiles EXCEPT ![w] = Append(@, e)]
      /\ outfile' = [outfile EXCEPT ![w] = None]
      /\ UNCHANGED <<form, fields, field, outfileNames, answer, clock>>
  BY DEF Copy
<1>3. e \in Listed /\ old \in Seq(Listed)
  <2>1. outfile[w] \in [url : Url, file : File] /\ old \in Seq(Listed)
    BY <1>1 DEF TypeOK
  <2>2. outfile[w].url \in Url /\ outfile[w].file.name \in Seq(Char)
    BY <2>1 DEF File
  <2>3. QED BY <2>1, <2>2 DEF Listed
<1>4. /\ Stored(e.url, e.name) /\ e.name \notin NamesOf(old)
      /\ outfileNames[w] = NamesOf(old) \cup {e.name} /\ ToCome(w)
  BY <1>1 DEF UploadInv, OwnInv, MetInv, Pending
<1> HIDE DEF e
<1>5. /\ new \in Seq(Listed) /\ Len(old) \in Nat /\ Len(new) = Len(old) + 1
      /\ \A i \in 1 .. Len(old) : new[i] = old[i]
      /\ new[Len(old) + 1] = e
  BY <1>3, AppendProperties
<1>6. TypeOK' /\ outfiles'[w] = new /\ outfile'[w] = None
  BY <1>1, <1>2, <1>5 DEF TypeOK
<1> HIDE DEF new
<1>7. /\ \A i \in 1 .. Len(new) : i \in 1 .. Len(old) \/ i = Len(old) + 1
      /\ \A i \in 1 .. Len(old) : i \in 1 .. Len(new)
      /\ Len(old) + 1 \in 1 .. Len(new)
  BY <1>5
<1>8. NamesOf(new) = NamesOf(old) \cup {e.name}
  BY <1>5, <1>7 DEF NamesOf
<1>9. \A i, j \in 1 .. Len(new) : i # j => new[i].name # new[j].name
  <2>1. \A i, j \in 1 .. Len(old) : i # j => old[i].name # old[j].name
    BY <1>1 DEF UploadInv, OwnInv
  <2>2. \A i \in 1 .. Len(old) : old[i].name # e.name
    BY <1>4 DEF NamesOf
  <2>3. QED BY <1>5, <1>7, <2>1, <2>2
<1>10. \A i \in 1 .. Len(new) : Stored(new[i].url, new[i].name)
  BY <1>1, <1>4, <1>5, <1>7 DEF UploadInv, OwnInv
<1>11. UploadInv(w)'
  <2>1. OwnInv(w)'
    BY <1>6, <1>9, <1>10 DEF OwnInv, Stored, StoredAs
  <2>2. PlacesInv(w)' /\ DoneInv(w)'
    BY <1>1, <1>2 DEF UploadInv, PlacesInv, DoneInv
  <2>3. ToCome(w)'
    BY <1>2, <1>4 DEF ToCome
  <2>4. MetInv(w)'
    BY <1>1, <1>2, <1>4, <1>6, <1>8, <2>3 DEF UploadInv, MetInv, Pending, Readable
  <2>5. QED BY <2>1, <2>2, <2>4 DEF UploadInv
<1>12. ASSUME NEW u \in Request, u # w PROVE UploadInv(u)'
  <2>1. outfiles'[u] = outfiles[u] /\ outfile'[u] = outfile[u]
    BY <1>1, <1>2, <1>12 DEF TypeOK
  <2>2. QED BY <1>2, <2>1, Others DEF Inv
<1>13. QED BY <1>6, <1>11, <1>12 DEF Inv

LEMMA AnswerStep ==
  ASSUME Inv, NEW w \in Request, Answer(w)
  PROVE  Inv'
<1> DEFINE all == [err |-> FALSE, files |-> outfiles[w]]
<1>1. /\ TypeOK /\ UploadInv(w) /\ answer[w] = None /\ outfile[w] = None
      /\ field[w] = <<>> /\ fields[w] = {}
  BY DEF Inv, Answer, InLoop
<1>2. /\ answer' = [answer EXCEPT ![w] = all]
      /\ UNCHANGED <<form, fields, field, outfileNames, outfile, outfiles, clock>>
  BY DEF Answer
<1>3. all \in [err : BOOLEAN, files : Seq(Listed)]
  BY <1>1 DEF TypeOK
<1>4. TypeOK' /\ answer'[w] = all /\ answer'[w] # None
  BY <1>1, <1>2, <1>3, NoneAssumption DEF TypeOK
<1>5. NamesOf(outfiles[w]) = Readable(w)
  <2>1. outfileNames[w] = NamesOf(outfiles[w]) /\ outfileNames[w] \subseteq Readable(w)
    BY <1>1 DEF UploadInv, MetInv, Pending
  <2>2. ASSUME NEW f \in FilesOf(form[w]), f.opens PROVE f.name \in outfileNames[w]
    BY <1>1, <2>2, EmptySeq DEF UploadInv, MetInv, ToCome
  <2>3. QED BY <2>1, <2>2 DEF Readable
<1>6. UploadInv(w)'
  <2>1. DoneInv(w)'
    BY <1>2, <1>4, <1>5 DEF DoneInv, Readable
  <2>2. QED BY <1>1, <1>2, <1>4, <2>1 DEF UploadInv, PlacesInv, OwnInv, MetInv, Readable
<1>7. ASSUME NEW u \in Request, u # w PROVE UploadInv(u)'
  <2>1. answer'[u] = answer[u]
    BY <1>1, <1>2, <1>7 DEF TypeOK
  <2>2. QED BY <1>2, <2>1, Others DEF Inv
<1>8. QED BY <1>4, <1>6, <1>7 DEF Inv

-----------------------------------------------------------------------------
(* The theorems.                                                           *)

LEMMA InitInv == Init => Inv
<1> SUFFICES ASSUME Init PROVE Inv
  OBVIOUS
<1>1. form \in [Request -> Form] /\ \A u \in Request : fields[u] = DOMAIN form[u]
  BY DEF Init
<1>2. \A u \in Request : /\ field[u] = <<>> /\ outfileNames[u] = {} /\ outfile[u] = None
                         /\ outfiles[u] = <<>> /\ answer[u] = None
  BY DEF Init
<1>3. Len(<<>>) = 0
  BY EmptySeq
<1>4. TypeOK
  <2>1. \A u \in Request : DOMAIN form[u] \in SUBSET Nat
    BY <1>1, FormFacts
  <2>2. fields \in [Request -> SUBSET Nat]
    BY <2>1 DEF Init
  <2>3. <<>> \in Seq(File) /\ <<>> \in Seq(Listed)
    BY EmptySeq
  <2>4. QED BY <1>1, <2>2, <2>3 DEF Init, TypeOK
<1>5. ASSUME NEW u \in Request PROVE UploadInv(u)
  <2>1. NamesOf(outfiles[u]) = {} /\ Pending(u) = {}
    BY <1>2, <1>3 DEF NamesOf, Pending
  <2>2. ToCome(u)
    BY <1>1 DEF ToCome, FilesOf
  <2>3. QED BY <1>1, <1>2, <1>3, <2>1, <2>2
            DEF UploadInv, PlacesInv, OwnInv, MetInv, DoneInv
<1>6. QED BY <1>4, <1>5 DEF Inv

LEMMA Invariant == Spec => []Inv
<1>1. Inv /\ [Next]_vars => Inv'
  <2> SUFFICES ASSUME Inv, [Next]_vars PROVE Inv'
    OBVIOUS
  <2>1. CASE Next
    BY <2>1, NextFieldStep, SkipStep, CreateStep, CopyStep, AnswerStep DEF Next
  <2>2. CASE UNCHANGED vars
    BY <2>2, Others DEF vars, Inv, TypeOK
  <2>3. QED BY <2>1, <2>2
<1>2. QED BY <1>1, InitInv, PTL DEF Spec

(* The variables of Upload keep their types (file_controller.go:38-84).    *)
THEOREM TypeCorrect == Spec => []TypeOK
<1>1. Inv => TypeOK
  BY DEF Inv
<1>2. QED BY <1>1, Invariant, PTL

(* Whatever is sent, in whatever order the fields come, however coarse the *)
(* clock is and whoever else uploads: the list has each name once, with a  *)
(* url of its own, and no readable one is missing (file_controller.go:48). *)
THEOREM ListedOnceAlways == Spec => []ListedOnce
<1>1. Inv => ListedOnce
  <2> SUFFICES ASSUME Inv, NEW u \in Request, answer[u] # None, ~answer[u].err
               PROVE  LET files == answer[u].files IN
                        /\ \A i, j \in DOMAIN files :
                             i # j => files[i].name # files[j].name /\ files[i].url # files[j].url
                        /\ {e.name : e \in ToSet(files)}
                             = {f.name : f \in {g \in FilesOf(form[u]) : g.opens}}
    BY DEF ListedOnce
  <2> DEFINE files == outfiles[u]
  <2>1. answer[u].files = files /\ NamesOf(files) = Readable(u) /\ OwnInv(u)
    BY DEF Inv, UploadInv, DoneInv
  <2>2. files \in Seq(Listed) /\ DOMAIN files = 1 .. Len(files)
    BY DEF Inv, TypeOK
  <2>3. ASSUME NEW i \in DOMAIN files, NEW j \in DOMAIN files, i # j
        PROVE  files[i].name # files[j].name /\ files[i].url # files[j].url
    <3>1. files[i] \in Listed /\ files[j] \in Listed
      BY <2>2
    <3>2. files[i].name \in Seq(Char) /\ files[j].name \in Seq(Char)
      BY <3>1 DEF Listed
    <3>3. /\ files[i].name # files[j].name
          /\ Stored(files[i].url, files[i].name) /\ Stored(files[j].url, files[j].name)
      BY <2>1, <2>2, <2>3 DEF OwnInv
    <3>4. QED BY <3>2, <3>3, StoredApart
  <2>4. {e.name : e \in ToSet(files)} = NamesOf(files)
    BY <2>2 DEF ToSet, NamesOf
  <2>5. QED BY <2>1, <2>3, <2>4 DEF Readable
<1>2. QED BY <1>1, Invariant, PTL

-----------------------------------------------------------------------------
(* What is on the disk.  A file there has been made by an upload that      *)
(* lists it or is about to; what it has when it is its only one.           *)
Urls(v) == {outfiles[v][i].url : i \in 1 .. Len(outfiles[v])} \cup (IF outfile[v] = None THEN {} ELSE {outfile[v].url})
Sole(u, url) == \A v \in Request : url \in Urls(v) => v = u

AsSent(u, e, content) ==
  \E f \in FilesOf(form[u]) : \E n \in 0 .. Len(f.content) :
    f.name = e.name /\ f.opens /\ content = SubSeq(f.content, 1, n)

WritingInv(u) ==
  outfile[u] # None =>
    /\ outfile[u].file \in FilesOf(form[u]) /\ outfile[u].file.opens
    /\ Sole(u, outfile[u].url) => disk[outfile[u].url] = <<>>

WrittenInv(u) ==
  \A i \in 1 .. Len(outfiles[u]) :
    Sole(u, outfiles[u][i].url) => AsSent(u, outfiles[u][i], disk[outfiles[u][i].url])

AnswerInv(u) == answer[u] # None => answer[u].files = <<>> \/ answer[u].files = outfiles[u]

DiskInv ==
  /\ DOMAIN disk = UNION {Urls(v) : v \in Request}
  /\ \A u \in Request : WritingInv(u) /\ WrittenInv(u) /\ AnswerInv(u)

LEMMA SameUrls ==
  ASSUME NEW v, UNCHANGED <<outfiles[v], outfile[v]>>
  PROVE  Urls(v)' = Urls(v)
BY DEF Urls

(* A step that writes nothing.                                             *)
LEMMA UnwrittenDisk ==
  ASSUME DiskInv, UNCHANGED <<form, outfile, outfiles, disk>>, \A u \in Request : AnswerInv(u)'
  PROVE  DiskInv'
<1>1. \A v : Urls(v)' = Urls(v)
  BY DEF Urls
<1>2. \A u, url : Sole(u, url)' <=> Sole(u, url)
  BY <1>1 DEF Sole
<1>3. ASSUME NEW u \in Request PROVE WritingInv(u)'
  <2>1. WritingInv(u)
    BY DEF DiskInv
  <2> QED BY <1>2, <2>1 DEF WritingInv
<1>4. ASSUME NEW u \in Request PROVE WrittenInv(u)'
  <2>1. WrittenInv(u)
    BY DEF DiskInv
  <2>2. ASSUME NEW i, AsSent(u, outfiles[u][i], disk[outfiles[u][i].url])
        PROVE  AsSent(u, outfiles[u][i], disk[outfiles[u][i].url])'
    BY <2>2 DEF AsSent
  <2> QED BY <1>2, <2>1, <2>2 DEF WrittenInv
<1> QED BY <1>1, <1>3, <1>4 DEF DiskInv

(* A file is made for the next file of a form.                             *)
LEMMA MadeDisk ==
  ASSUME Inv, DiskInv, NEW w \in Request, NEW f \in File, f \in FilesOf(form[w]),
         NEW url \in Url, Stored(url, f.name),
         f.opens, f.name \notin outfileNames[w], answer[w] = None, outfile[w] = None,
         outfile' = [outfile EXCEPT ![w] = [url |-> url, file |-> f]],
         disk' = [path \in DOMAIN disk \cup {url} |-> IF path \in DOMAIN disk THEN disk[path] ELSE <<>>],
         UNCHANGED <<form, outfiles, answer>>
  PROVE  DiskInv'
<1> DEFINE new == [url |-> url, file |-> f]
<1>1. TypeOK /\ UploadInv(w) /\ new.url = url /\ new.file = f /\ f.name \in Seq(Char)
  BY DEF Inv, File
<1>2. /\ DOMAIN disk' = DOMAIN disk \cup {url}
      /\ \A path \in DOMAIN disk : disk'[path] = disk[path]
      /\ url \notin DOMAIN disk => disk'[url] = <<>>
  OBVIOUS
<1>3. outfile' = [outfile EXCEPT ![w] = new] /\ new \in [url : Url, file : File]
  OBVIOUS
<1> HIDE DEF new
<1>4. /\ outfile'[w] = new /\ new # None
      /\ \A v \in Request \ {w} : outfile'[v] = outfile[v]
  BY <1>1, <1>3, NoneAssumption DEF TypeOK
<1>5. \A v \in Request \ {w} : Urls(v)' = Urls(v)
  BY <1>4, SameUrls
<1>6. Urls(w)' = Urls(w) \cup {url}
  BY <1>1, <1>4 DEF Urls
<1>7. url \notin Urls(w)
  <2>1. Urls(w) = {outfiles[w][i].url : i \in 1 .. Len(outfiles[w])}
    BY DEF Urls
  <2>2. ASSUME NEW i \in 1 .. Len(outfiles[w]) PROVE outfiles[w][i].url # url
    <3>1. outfiles[w][i] \in Listed
      BY <1>1 DEF TypeOK
    <3>2. outfiles[w][i].name # f.name /\ outfiles[w][i].name \in Seq(Char)
      BY <1>1, <3>1 DEF UploadInv, MetInv, NamesOf, Listed
    <3>3. Stored(outfiles[w][i].url, outfiles[w][i].name)
      BY <1>1 DEF UploadInv, OwnInv
    <3> QED BY <1>1, <3>2, <3>3, StoredApart
  <2> QED BY <2>1, <2>2
<1>8. \A v \in Request : Urls(v) \subseteq Urls(v)'
  BY <1>5, <1>6
<1>9. ASSUME NEW u \in Request, NEW path, Sole(u, path)' PROVE Sole(u, path)
  BY <1>8, <1>9 DEF Sole
<1>10. DOMAIN disk = UNION {Urls(v) : v \in Request}
  BY DEF DiskInv
<1>11. (DOMAIN disk)' = (UNION {Urls(v) : v \in Request})'
  <2>1. ASSUME NEW path PROVE path \in (DOMAIN disk)' <=> \E v \in Request : path \in Urls(v)'
    BY <1>2, <1>5, <1>6, <1>10
  <2> QED BY <2>1
<1>12. ASSUME Sole(w, url)' PROVE url \notin DOMAIN disk
  <2> SUFFICES ASSUME NEW v \in Request, url \in Urls(v)
               PROVE  FALSE
    BY <1>10
  <2>1. v # w /\ url \in Urls(v)'
    BY <1>7, <1>8
  <2> QED BY <1>12, <2>1 DEF Sole
<1>13. ASSUME NEW u \in Request PROVE WrittenInv(u)'
  <2> SUFFICES ASSUME NEW i \in 1 .. Len(outfiles[u]), NEW path, path = outfiles[u][i].url, Sole(u, path)'
               PROVE  AsSent(u, outfiles[u][i], disk[path])'
    BY DEF WrittenInv
  <2>1. path \in DOMAIN disk
    BY <1>10 DEF Urls
  <2>2. AsSent(u, outfiles[u][i], disk[path])
    BY <1>9 DEF DiskInv, WrittenInv
  <2> QED BY <1>2, <2>1, <2>2 DEF AsSent
<1>14. ASSUME NEW u \in Request PROVE WritingInv(u)'
  <2>1. CASE u = w
    BY <1>1, <1>2, <1>4, <1>12, <2>1 DEF WritingInv
  <2>2. CASE u # w
    <3>1. outfile'[u] = outfile[u]
      BY <1>4, <2>2
    <3> SUFFICES ASSUME outfile[u] # None
                 PROVE  /\ outfile[u].file \in FilesOf(form[u]) /\ outfile[u].file.opens
                        /\ \A path : path = outfile[u].url /\ Sole(u, path)' => disk'[path] = <<>>
      BY <3>1 DEF WritingInv
    <3>2. outfile[u].url \in DOMAIN disk
      BY <1>10 DEF Urls
    <3>3. WritingInv(u)
      BY DEF DiskInv
    <3> QED BY <1>2, <1>9, <3>2, <3>3 DEF WritingInv
  <2> QED BY <2>1, <2>2
<1>15. \A u \in Request : AnswerInv(u)'
  BY DEF DiskInv, AnswerInv
<1> QED BY <1>11, <1>13, <1>14, <1>15 DEF DiskInv

LEMMA CreateDisk ==
  ASSUME Inv, DiskInv, NEW w \in Request, Create(w)
  PROVE  DiskInv'
<1>1. /\ TypeOK /\ UploadInv(w) /\ field[w] \in Seq(File) /\ field[w] # <<>>
      /\ answer[w] = None /\ outfile[w] = None /\ clock \in Nat
      /\ UNCHANGED <<form, outfiles>>
  BY DEF Inv, TypeOK, Create, InLoop
<1>2. PICK f, t : f = Head(field[w]) /\ t = clock'
  OBVIOUS
<1>3. f \in FilesOf(form[w]) /\ f \in File /\ t \in Nat
  BY <1>1, <1>2, HeadAndTail DEF UploadInv, PlacesInv, Create, Clock
<1>4. PICK url : url = StoredAs(t, f.name)
  OBVIOUS
<1>5. /\ f.opens /\ f.name \notin outfileNames[w]
      /\ \/ /\ outfile' = [outfile EXCEPT ![w] = [url |-> url, file |-> f]]
            /\ disk' = [path \in DOMAIN disk \cup {url} |-> IF path \in DOMAIN disk THEN disk[path] ELSE <<>>]
            /\ UNCHANGED answer
         \/ answer' = [answer EXCEPT ![w] = [err |-> TRUE, files |-> <<>>]] /\ UNCHANGED <<outfile, disk>>
  BY <1>2, <1>4 DEF Create
<1>6. CASE answer' = [answer EXCEPT ![w] = [err |-> TRUE, files |-> <<>>]] /\ UNCHANGED <<outfile, disk>>
  <2>1. \A u \in Request : AnswerInv(u)'
    BY <1>1, <1>6 DEF DiskInv, AnswerInv, TypeOK
  <2> QED BY <1>1, <1>6, <2>1, UnwrittenDisk
<1>7. f.name \in Seq(Char) /\ Stored(url, f.name) /\ url \in Url
  <2>1. <<t, Sep>> \in Seq(Nat \cup Char) /\ f.name \in Seq(Nat \cup Char) /\ f.name \in Seq(Char)
    BY <1>3, FileStoreAssumption DEF File
  <2> QED BY <1>3, <1>4, <2>1, ConcatProperties DEF StoredAs, Url, Stored
<1> QED BY <1>1, <1>3, <1>5, <1>6, <1>7, MadeDisk

(* Writing to a file that has nothing in it.                               *)
LEMMA OverNothing ==
  ASSUME NEW content \in Seq(Byte), NEW n \in 0 .. Len(content)
  PROVE  Over(<<>>, content, n) = SubSeq(content, 1, n)
<1>1. SubSeq(content, 1, n) \in Seq(Byte)
  BY SubSeqProperties
<1>2. SubSeq(<<>>, n + 1, Len(<<>>)) = <<>>
  OBVIOUS
<1> QED BY <1>1, <1>2, ConcatEmptySeq DEF Over

LEMMA CopyDisk ==
  ASSUME Inv, DiskInv, NEW w \in Request, Copy(w)
  PROVE  DiskInv'
<1>1. PICK url, f : url = outfile[w].url /\ f = outfile[w].file
  OBVIOUS
<1>2. PICK n \in 0 .. Len(f.content) : disk' = [disk EXCEPT ![url] = Over(@, f.content, n)]
  <2>1. f \in File /\ Len(f.content) \in Nat
    BY <1>1, NoneAssumption DEF Inv, TypeOK, Copy, File
  <2> DEFINE lengths == IF "copy" \in Faults THEN 0 .. Len(f.content) ELSE {Len(f.content)}
  <2>2. \E n \in lengths : disk' = [disk EXCEPT ![url] = Over(@, f.content, n)]
    BY <1>1 DEF Copy
  <2>3. lengths \subseteq 0 .. Len(f.content)
    BY <2>1
  <2> HIDE DEF lengths
  <2> QED BY <2>2, <2>3
<1>3. /\ TypeOK /\ UploadInv(w) /\ outfile[w] # None /\ outfile[w] \in [url : Url, file : File]
      /\ answer[w] = None /\ UNCHANGED <<form, answer>> /\ outfile' = [outfile EXCEPT ![w] = None]
  BY DEF Inv, TypeOK, Copy
<1>4. url \in Url /\ f \in File /\ f.name \in Seq(Char) /\ f.content \in Seq(Byte)
  BY <1>1, <1>3 DEF File
<1>5. PICK new : new = [name |-> f.name, url |-> url]
  OBVIOUS
<1>6. new \in Listed /\ new.name = f.name /\ new.url = url
  BY <1>4, <1>5 DEF Listed
<1>7. outfiles' = [outfiles EXCEPT ![w] = Append(@, new)]
  BY <1>1, <1>5 DEF Copy
<1>8. /\ outfiles[w] \in Seq(Listed) /\ outfiles'[w] = Append(outfiles[w], new) /\ outfile'[w] = None
      /\ \A v \in Request \ {w} : outfiles'[v] = outfiles[v] /\ outfile'[v] = outfile[v]
  BY <1>3, <1>7 DEF TypeOK
<1>9. /\ Len(outfiles[w]) \in Nat /\ Len(outfiles'[w]) = Len(outfiles[w]) + 1
      /\ \A i \in 1 .. Len(outfiles[w]) : outfiles'[w][i] = outfiles[w][i]
      /\ outfiles'[w][Len(outfiles[w]) + 1] = new
  BY <1>6, <1>8, AppendProperties
<1>10. \A v \in Request \ {w} : Urls(v)' = Urls(v)
  BY <1>8, SameUrls
<1>11. Urls(w)' = Urls(w) /\ url \in Urls(w)
  <2>1. Urls(w) = {outfiles[w][i].url : i \in 1 .. Len(outfiles[w])} \cup {url}
    BY <1>1, <1>3 DEF Urls
  <2>2. Urls(w)' = {outfiles'[w][i].url : i \in 1 .. Len(outfiles'[w])}
    BY <1>8 DEF Urls
  <2>3. ASSUME NEW i \in 1 .. Len(outfiles'[w]) PROVE outfiles'[w][i].url \in Urls(w)
    <3>1. i \in 1 .. Len(outfiles[w]) \/ i = Len(outfiles[w]) + 1
      BY <1>9
    <3> QED BY <1>6, <1>9, <2>1, <3>1
  <2>4. Urls(w) \subseteq Urls(w)'
    BY <1>6, <1>9, <2>1, <2>2
  <2> QED BY <2>1, <2>2, <2>3, <2>4
<1>12. \A v \in Request : Urls(v)' = Urls(v)
  BY <1>10, <1>11
<1>13. \A u \in Request : \A path : Sole(u, path)' <=> Sole(u, path)
  BY <1>12 DEF Sole
<1>14. DOMAIN disk = UNION {Urls(v) : v \in Request}
  BY DEF DiskInv
<1>15. /\ DOMAIN disk' = DOMAIN disk
       /\ \A path \in DOMAIN disk \ {url} : disk'[path] = disk[path]
       /\ disk'[url] = Over(disk[url], f.content, n)
  BY <1>2, <1>11, <1>14
<1>16. DOMAIN disk' = UNION {Urls(v)' : v \in Request}
  BY <1>12, <1>14, <1>15
<1>17. ASSUME NEW u \in Request, u # w, NEW path \in Urls(u), Sole(u, path)
       PROVE  disk'[path] = disk[path]
  <2>1. path # url
    BY <1>11, <1>17 DEF Sole
  <2> QED BY <1>14, <1>15, <2>1
<1>18. ASSUME NEW i \in 1 .. Len(outfiles[w]) PROVE disk'[outfiles[w][i].url] = disk[outfiles[w][i].url]
  <2>1. outfiles[w][i] \in Listed
    BY <1>8
  <2>2. outfiles[w][i].name # f.name /\ outfiles[w][i].name \in Seq(Char)
    BY <1>1, <1>3, <2>1 DEF UploadInv, OwnInv, NamesOf, Listed
  <2>3. Stored(outfiles[w][i].url, outfiles[w][i].name) /\ Stored(url, f.name)
    BY <1>1, <1>3 DEF UploadInv, OwnInv
  <2>4. outfiles[w][i].url # url
    BY <1>4, <2>2, <2>3, StoredApart
  <2>5. outfiles[w][i].url \in Urls(w)
    BY DEF Urls
  <2> QED BY <1>14, <1>15, <2>4, <2>5
<1>19. ASSUME NEW u \in Request PROVE WrittenInv(u)'
  <2>1. ASSUME NEW i \in 1 .. Len(outfiles[u]), outfiles'[u][i] = outfiles[u][i],
               Sole(u, outfiles[u][i].url) => disk'[outfiles[u][i].url] = disk[outfiles[u][i].url],
               NEW path, path = outfiles[u][i].url, Sole(u, path)
        PROVE  AsSent(u, outfiles[u][i], disk[path])'
    <3>1. AsSent(u, outfiles[u][i], disk[path])
      BY <2>1 DEF DiskInv, WrittenInv
    <3> QED BY <1>3, <2>1, <3>1 DEF AsSent
  <2>2. CASE u # w
    <3> SUFFICES ASSUME NEW i \in 1 .. Len(outfiles[u]), NEW path, path = outfiles[u][i].url, Sole(u, path)
                 PROVE  AsSent(u, outfiles[u][i], disk[path])'
      BY <1>8, <1>13, <2>2 DEF WrittenInv
    <3>1. path \in Urls(u)
      BY DEF Urls
    <3> QED BY <1>8, <1>17, <2>1, <2>2, <3>1
  <2>3. CASE u = w
    <3> SUFFICES ASSUME NEW i \in 1 .. Len(outfiles'[w]), NEW path, path = outfiles'[w][i].url, Sole(w, path)
                 PROVE  AsSent(w, outfiles[w][i], disk[path])'
      BY <1>13, <2>3 DEF WrittenInv
    <3>1. CASE i \in 1 .. Len(outfiles[w])
      BY <1>9, <1>18, <2>1, <2>3, <3>1
    <3>2. CASE i = Len(outfiles[w]) + 1
      <4>1. path = url /\ outfiles'[w][i] = new
        BY <1>6, <1>9, <3>2
      <4>2. WritingInv(w)
        BY DEF DiskInv
      <4>3. disk[url] = <<>> /\ f \in FilesOf(form[w]) /\ f.opens
        BY <1>1, <1>3, <4>1, <4>2 DEF WritingInv
      <4>4. disk'[url] = SubSeq(f.content, 1, n)
        BY <1>4, <1>15, <4>3, OverNothing
      <4> QED BY <1>3, <1>6, <4>1, <4>3, <4>4 DEF AsSent
    <3> QED BY <1>9, <3>1, <3>2
  <2> QED BY <2>2, <2>3
<1>20. ASSUME NEW u \in Request PROVE WritingInv(u)'
  <2>1. CASE u = w
    BY <1>8, <2>1 DEF WritingInv
  <2>2. CASE u # w
    <3>1. outfile'[u] = outfile[u] /\ WritingInv(u)
      BY <1>8, <2>2 DEF DiskInv
    <3> SUFFICES ASSUME outfile[u] # None
                 PROVE  /\ outfile[u].file \in FilesOf(form[u]) /\ outfile[u].file.opens
                        /\ \A path : path = outfile[u].url /\ Sole(u, path)' => disk'[path] = <<>>
      BY <1>3, <3>1 DEF WritingInv
    <3>2. outfile[u].url \in Urls(u)
      BY DEF Urls
    <3> QED BY <1>13, <1>17, <2>2, <3>1, <3>2 DEF WritingInv
  <2> QED BY <2>1, <2>2
<1>21. ASSUME NEW u \in Request PROVE AnswerInv(u)'
  <2>1. AnswerInv(u)
    BY DEF DiskInv
  <2> QED BY <1>3, <1>8, <2>1 DEF AnswerInv
<1> QED BY <1>16, <1>19, <1>20, <1>21 DEF DiskInv

LEMMA DiskStep ==
  ASSUME Inv, DiskInv, [Next]_vars
  PROVE  DiskInv'
<1>1. ASSUME NEW w \in Request, NextField(w) \/ Skip(w) PROVE DiskInv'
  <2>1. UNCHANGED <<form, outfile, outfiles, disk, answer>>
    BY <1>1 DEF NextField, Skip
  <2>2. \A u \in Request : AnswerInv(u)'
    BY <2>1 DEF DiskInv, AnswerInv
  <2> QED BY <2>1, <2>2, UnwrittenDisk
<1>2. ASSUME NEW w \in Request, Answer(w) PROVE DiskInv'
  <2>1. /\ answer' = [answer EXCEPT ![w] = [err |-> FALSE, files |-> outfiles[w]]]
        /\ UNCHANGED <<form, outfile, outfiles, disk>>
    BY <1>2 DEF Answer
  <2>2. \A u \in Request : AnswerInv(u)'
    BY <2>1 DEF DiskInv, AnswerInv, Inv, TypeOK
  <2> QED BY <2>1, <2>2, UnwrittenDisk
<1>3. CASE UNCHANGED vars
  <2>1. UNCHANGED <<form, outfile, outfiles, disk, answer>>
    BY <1>3 DEF vars
  <2>2. \A u \in Request : AnswerInv(u)'
    BY <2>1 DEF DiskInv, AnswerInv
  <2> QED BY <2>1, <2>2, UnwrittenDisk
<1> QED BY <1>1, <1>2, <1>3, CreateDisk, CopyDisk DEF Next

LEMMA DiskInvariant == Spec => []DiskInv
<1>1. Init => DiskInv
  BY DEF Init, DiskInv, WritingInv, WrittenInv, AnswerInv, Urls
<1> QED BY <1>1, DiskStep, Invariant, PTL DEF Spec

-----------------------------------------------------------------------------
(* The name a stored file is offered under.                                *)
LEMMA OfferedIsName ==
  ASSUME NEW t \in Nat, NEW name \in Seq(Char)
  PROVE  /\ Offered(StoredAs(t, name)) = name
         /\ ToSet(name) \subseteq Routed => ToSet(Tail(StoredAs(t, name))) \subseteq Routed
<1> DEFINE url == StoredAs(t, name)
           I == {i \in 1 .. Len(url) : url[i] = Sep}
           pos == SelectInSeq(url, LAMBDA c : c = Sep)
<1>1. /\ <<t, Sep>> \in Seq(Nat \cup Char) /\ Len(<<t, Sep>>) = 2 /\ name \in Seq(Nat \cup Char)
      /\ Sep \in Routed /\ t # Sep
  BY FileStoreAssumption
<1>2. /\ url \in Seq(Nat \cup Char) /\ Len(url) = 2 + Len(name) /\ Len(name) \in Nat
      /\ url[1] = t /\ url[2] = Sep /\ \A i \in 1 .. Len(name) : url[i + 2] = name[i]
  <2>1. /\ url \in Seq(Nat \cup Char) /\ Len(url) = 2 + Len(name) /\ Len(name) \in Nat
        /\ \A i \in 1 .. 2 + Len(name) : url[i] = IF i <= 2 THEN <<t, Sep>>[i] ELSE name[i - 2]
    BY <1>1, ConcatProperties DEF StoredAs
  <2>2. ASSUME NEW i \in 1 .. Len(name) PROVE i + 2 \in 1 .. 2 + Len(name) /\ ~(i + 2 <= 2) /\ (i + 2) - 2 = i
    BY <2>1
  <2>3. 1 \in 1 .. 2 + Len(name) /\ 2 \in 1 .. 2 + Len(name)
    BY <2>1
  <2> HIDE DEF url
  <2> QED BY <2>1, <2>2, <2>3
<1> HIDE DEF url
<1>3. 2 \in I /\ \A i \in I : 2 =< i
  BY <1>1, <1>2
<1>4. Min(I) = 2
  BY <1>3 DEF Min
<1>5. pos = 2
  BY <1>3, <1>4 DEF SelectInSeq
<1>6. SubSeq(url, 3, Len(url)) = name
  <2>1. /\ SubSeq(url, 3, Len(url)) \in Seq(Nat \cup Char) /\ Len(SubSeq(url, 3, Len(url))) = Len(name)
        /\ \A i \in 1 .. Len(name) : SubSeq(url, 3, Len(url))[i] = url[i + 2]
    BY <1>2, SubSeqProperties
  <2> QED BY <1>1, <1>2, <2>1, SeqEqual
<1>7. ToSet(name) \subseteq Routed => ToSet(Tail(url)) \subseteq Routed
  <2>1. /\ Len(Tail(url)) = 1 + Len(name) /\ Tail(url) \in Seq(Nat \cup Char)
        /\ \A i \in 1 .. 1 + Len(name) : Tail(url)[i] = url[i + 1]
    BY <1>2, EmptySeq, HeadTailProperties
  <2> SUFFICES ASSUME ToSet(name) \subseteq Routed, NEW i \in 1 .. 1 + Len(name)
               PROVE  url[i + 1] \in Routed
    BY <2>1 DEF ToSet
  <2>2. CASE i = 1
    BY <1>1, <1>2, <2>2
  <2>3. CASE i # 1
    <3>1. i - 1 \in 1 .. Len(name) /\ (i - 1) + 2 = i + 1
      BY <1>2, <2>3
    <3>2. name[i - 1] \in ToSet(name)
      BY <1>1, <3>1 DEF ToSet
    <3> QED BY <1>2, <3>1, <3>2
  <2> QED BY <2>2, <2>3
<1>8. Offered(url) = SubSeq(url, pos + 1, Len(url))
  BY DEF Offered
<1> HIDE DEF pos
<1>9. Offered(url) = name
  BY <1>5, <1>6, <1>8
<1> QED BY <1>7, <1>9 DEF url

(* Whatever is uploaded next to it or after it, a listed url whose upload  *)
(* is its only writer is offered under the name its file was sent under,   *)
(* and leads to the bytes sent, from the first on (Upload and Download,    *)
(* file_controller.go:38-84, :21-34): a url holds a reading of the clock,  *)
(* "_" and the name, the first "_" is that one, and a name is taken once   *)
(* by an upload.                                                           *)
THEOREM DownloadedAsUploaded == Spec => []DownloadsAsUploaded
<1>1. Inv /\ DiskInv => DownloadsAsUploaded
  <2> SUFFICES ASSUME Inv, DiskInv, NEW u \in Request, answer[u] # None,
                      NEW e \in ToSet(answer[u].files), ToSet(e.name) \subseteq Routed, Writers(e.url) = {u}
               PROVE  \E f \in FilesOf(form[u]) : \E n \in 0 .. Len(f.content) :
                        /\ f.name = e.name /\ f.opens
                        /\ Download(e.url) = [name |-> f.name, content |-> SubSeq(f.content, 1, n)]
    BY DEF DownloadsAsUploaded
  <2>1. /\ TypeOK /\ UploadInv(u) /\ WrittenInv(u) /\ AnswerInv(u)
        /\ DOMAIN disk = UNION {Urls(v) : v \in Request}
    BY DEF Inv, DiskInv
  <2>2. answer[u].files = outfiles[u]
    BY <2>1 DEF AnswerInv, ToSet
  <2>3. outfiles[u] \in Seq(Listed)
    BY <2>1 DEF TypeOK
  <2>4. PICK i \in 1 .. Len(outfiles[u]) : outfiles[u][i] = e
    BY <2>2, <2>3 DEF ToSet
  <2>5. e \in Listed
    BY <2>3, <2>4
  <2>6. e.name \in Seq(Char)
    BY <2>5 DEF Listed
  <2>7. PICK t \in Nat : e.url = StoredAs(t, e.name)
    BY <2>1, <2>4 DEF UploadInv, OwnInv, Stored
  <2>8. Sole(u, e.url)
    <3> SUFFICES ASSUME NEW v \in Request, e.url \in Urls(v)
                 PROVE  v = u
      BY DEF Sole
    <3>1. outfiles[v] \in Seq(Listed)
      BY <2>1 DEF TypeOK
    <3>2. v \in Writers(e.url)
      BY <3>1 DEF Writers, Urls, ToSet
    <3> QED BY <3>2
  <2>9. AsSent(u, e, disk[e.url])
    BY <2>1, <2>4, <2>8 DEF WrittenInv
  <2>10. e.url \in DOMAIN disk
    BY <2>1, <2>4 DEF Urls
  <2>11. Download(e.url) = [name |-> e.name, content |-> disk[e.url]]
    BY <2>6, <2>7, <2>10, OfferedIsName DEF Download
  <2> QED BY <2>9, <2>11 DEF AsSent
<1> QED BY <1>1, Invariant, DiskInvariant, PTL

-----------------------------------------------------------------------------
(* Cutting off a comment.                                                  *)

LEMMA Least ==
  ASSUME NEW T \in SUBSET Nat, T # {}
  PROVE  Min(T) \in T /\ \A y \in T : Min(T) <= y
<1>1. PICK x \in T : \A y \in T : ~(<<y, x>> \in OpToRel(<, Nat))
  BY WFMin, NatLessThanWellFounded
<1>2. ASSUME NEW y \in T PROVE x <= y
  <2>1. <<y, x>> \in Nat \X Nat /\ y \in Nat /\ x \in Nat
    OBVIOUS
  <2>2. ~(y < x)
    <3>1. SUFFICES ASSUME y < x PROVE <<y, x>> \in OpToRel(<, Nat)
      BY <1>1
    <3>2. QED BY <2>1, <3>1 DEF OpToRel
  <2>3. QED BY <2>1, <2>2
<1>3. QED BY <1>2 DEF Min

(* What comes before the first of one mark.                                *)
LEMMA CutFacts ==
  ASSUME NEW value \in Value, NEW mark
  PROVE  LET cut == CutBefore(value, mark) IN
           /\ cut \in Value /\ Len(cut) \in 0 .. Len(value)
           /\ \A i \in 1 .. Len(cut) : cut[i] = value[i] /\ value[i] # mark
           /\ Len(cut) = Len(value) \/ value[Len(cut) + 1] = mark
<1> DEFINE T == {i \in 1 .. Len(value) : value[i] = mark}
           pos == SelectInSeq(value, LAMBDA w : w = mark)
<1>1. Len(value) \in Nat /\ value \in Seq(Word \cup ToSet(Marks))
  BY DEF Value
<1>2. pos = IF T # {} THEN Min(T) ELSE 0
  BY DEF SelectInSeq
<1>3. CutBefore(value, mark) = IF pos = 0 THEN value ELSE SubSeq(value, 1, pos - 1)
  BY DEF CutBefore
<1> HIDE DEF pos
<1>4. CASE T = {}
  <2>1. CutBefore(value, mark) = value
    BY <1>2, <1>3, <1>4
  <2>2. QED BY <1>1, <1>4, <2>1
<1>5. CASE T # {}
  <2>1. T \in SUBSET Nat
    BY <1>1
  <2>2. pos = Min(T)
    BY <1>2, <1>5
  <2> HIDE DEF T
  <2>3. pos \in T /\ \A y \in T : pos <= y
    BY <1>5, <2>1, <2>2, Least
  <2> USE DEF T
  <2>4. pos \in 1 .. Len(value) /\ value[pos] = mark
    BY <2>3
  <2>5. CutBefore(value, mark) = SubSeq(value, 1, pos - 1)
    BY <1>1, <1>3, <2>4
  <2>6. /\ SubSeq(value, 1, pos - 1) \in Value /\ Len(SubSeq(value, 1, pos - 1)) = pos - 1
        /\ \A i \in 1 .. pos - 1 : SubSeq(value, 1, pos - 1)[i] = value[i]
    BY <1>1, <2>4 DEF Value
  <2>7. ASSUME NEW i \in 1 .. pos - 1 PROVE value[i] # mark
    <3>1. i \in 1 .. Len(value) /\ ~(pos <= i)
      BY <1>1, <2>4
    <3>2. QED BY <2>3, <3>1
  <2>8. pos - 1 \in 0 .. Len(value) /\ (pos - 1) + 1 = pos
    BY <1>1, <2>4
  <2>9. QED BY <2>4, <2>5, <2>6, <2>7, <2>8
<1>6. QED BY <1>4, <1>5

(* What is left of a value while one mark after the other is looked for:   *)
(* a part from its beginning that ends where a comment does.               *)
Left(value, cut) ==
  /\ cut \in Value /\ Len(cut) \in 0 .. Len(value)
  /\ \A i \in 1 .. Len(cut) : cut[i] = value[i]
  /\ Len(cut) = Len(value) \/ value[Len(cut) + 1] \in ToSet(Marks)

Without(cut, mark) == \A i \in 1 .. Len(cut) : cut[i] # mark

LEMMA CutAgain ==
  ASSUME NEW value \in Value, NEW cut, Left(value, cut), NEW mark \in ToSet(Marks)
  PROVE  LET next == CutBefore(cut, mark) IN
           /\ Left(value, next) /\ Without(next, mark)
           /\ \A m : Without(cut, m) => Without(next, m)
<1> DEFINE next == CutBefore(cut, mark)
<1>1. /\ cut \in Value /\ Len(cut) \in 0 .. Len(value) /\ Len(value) \in Nat /\ Len(cut) \in Nat
      /\ \A i \in 1 .. Len(cut) : cut[i] = value[i]
      /\ Len(cut) = Len(value) \/ value[Len(cut) + 1] \in ToSet(Marks)
  BY DEF Left, Value
<1>2. /\ next \in Value /\ Len(next) \in 0 .. Len(cut)
      /\ \A i \in 1 .. Len(next) : next[i] = cut[i] /\ cut[i] # mark
      /\ Len(next) = Len(cut) \/ cut[Len(next) + 1] = mark
  BY <1>1, CutFacts
<1> HIDE DEF next
<1>3. \A i \in 1 .. Len(next) : i \in 1 .. Len(cut)
  BY <1>1, <1>2
<1>4. Len(next) = Len(value) \/ value[Len(next) + 1] \in ToSet(Marks)
  <2>1. CASE Len(next) = Len(cut)
    BY <1>1, <2>1
  <2>2. CASE Len(next) # Len(cut)
    <3>1. Len(next) + 1 \in 1 .. Len(cut)
      BY <1>1, <1>2, <2>2
    <3>2. QED BY <1>1, <1>2, <2>2, <3>1
  <2>3. QED BY <2>1, <2>2
<1>5. Left(value, next)
  BY <1>1, <1>2, <1>3, <1>4 DEF Left
<1>6. Without(next, mark) /\ \A m : Without(cut, m) => Without(next, m)
  BY <1>2, <1>3 DEF Without
<1>7. QED BY <1>5, <1>6 DEF next

(* Whichever mark comes first, that is where the value ends.               *)
LEMMA CommentFacts ==
  ASSUME NEW value \in Value
  PROVE  LET rest == WithoutComment(value) IN
           /\ Left(value, rest)
           /\ \A i \in 1 .. Len(rest) : rest[i] \in Word
<1> DEFINE cut1 == CutBefore(value, Marks[1])
           cut2 == CutBefore(cut1, Marks[2])
           cut3 == CutBefore(cut2, Marks[3])
           cut4 == CutBefore(cut3, Marks[4])
<1>1. ToSet(Marks) = {Marks[1], Marks[2], Marks[3], Marks[4]}
  <2>1. DOMAIN Marks = 1 .. 4
    BY DEF Marks
  <2>2. 1 .. 4 = {1, 2, 3, 4}
    OBVIOUS
  <2>3. QED BY <2>1, <2>2 DEF ToSet
<1>2. Left(value, value)
  BY DEF Left, Value
<1>3. WithoutComment(value) = cut4
  BY DEF WithoutComment
<1>4. Left(value, cut1) /\ Without(cut1, Marks[1])
  BY <1>1, <1>2, CutAgain
<1> HIDE DEF cut1
<1>5. Left(value, cut2) /\ Without(cut2, Marks[1]) /\ Without(cut2, Marks[2])
  BY <1>1, <1>4, CutAgain
<1> HIDE DEF cut2
<1>6. Left(value, cut3) /\ \A k \in {1, 2, 3} : Without(cut3, Marks[k])
  BY <1>1, <1>5, CutAgain
<1> HIDE DEF cut3
<1>7. Left(value, cut4) /\ \A k \in {1, 2, 3, 4} : Without(cut4, Marks[k])
  BY <1>1, <1>6, CutAgain
<1> HIDE DEF cut4
<1>8. ASSUME NEW i \in 1 .. Len(cut4) PROVE cut4[i] \in Word
  <2>1. cut4[i] \in Word \cup ToSet(Marks)
    BY <1>7 DEF Left, Value
  <2>2. cut4[i] \notin ToSet(Marks)
    BY <1>1, <1>7 DEF Without
  <2>3. QED BY <2>1, <2>2
<1>9. QED BY <1>3, <1>7, <1>8

(* Cutting at one mark after the other is cutting at the first of any.     *)
LEMMA CommentCut ==
  ASSUME NEW value \in Value
  PROVE  WithoutComment(value) = UpToMark(value) /\ WithoutComment(value) \in Value
<1> DEFINE rest == WithoutComment(value)
           Fits(n) == /\ \A i \in 1 .. n : value[i] \in Word
                      /\ n = Len(value) \/ value[n + 1] \notin Word
<1>1. /\ rest \in Value /\ Len(rest) \in 0 .. Len(value) /\ Len(value) \in Nat
      /\ \A i \in 1 .. Len(rest) : rest[i] = value[i] /\ rest[i] \in Word
      /\ Len(rest) = Len(value) \/ value[Len(rest) + 1] \in ToSet(Marks)
  BY CommentFacts DEF Left, Value
<1> HIDE DEF rest
<1>2. Word \cap ToSet(Marks) = {}
  BY ConfAssumption
<1>3. Fits(Len(rest))
  BY <1>1, <1>2
<1>4. ASSUME NEW n \in 0 .. Len(value), NEW m \in 0 .. Len(value), Fits(n), Fits(m), n < m
      PROVE  FALSE
  <2>1. n # Len(value) /\ n + 1 \in 1 .. m
    BY <1>1, <1>4
  <2>2. QED BY <1>4, <2>1
<1>5. \A n \in 0 .. Len(value) : Fits(n) => n = Len(rest)
  <2>1. SUFFICES ASSUME NEW n \in 0 .. Len(value), Fits(n), n # Len(rest) PROVE FALSE
    OBVIOUS
  <2>2. n < Len(rest) \/ Len(rest) < n
    BY <1>1, <2>1
  <2> HIDE DEF Fits
  <2>3. QED BY <1>1, <1>3, <1>4, <2>1, <2>2
<1>6. (CHOOSE n \in 0 .. Len(value) : Fits(n)) = Len(rest)
  <2> HIDE DEF Fits
  <2>1. QED BY <1>1, <1>3, <1>5
<1>7. UpToMark(value) = SubSeq(value, 1, Len(rest))
  BY <1>6 DEF UpToMark
<1>8. SubSeq(value, 1, Len(rest)) = rest
  <2>1. value \in Seq(Word \cup ToSet(Marks)) /\ rest \in Seq(Word \cup ToSet(Marks))
    BY <1>1 DEF Value
  <2>2. /\ SubSeq(value, 1, Len(rest)) \in Seq(Word \cup ToSet(Marks))
        /\ Len(SubSeq(value, 1, Len(rest))) = Len(rest)
        /\ \A i \in 1 .. Len(rest) : SubSeq(value, 1, Len(rest))[i] = value[i]
    BY <1>1, <2>1
  <2>3. QED BY <1>1, <2>1, <2>2, SeqEqual
<1>9. QED BY <1>1, <1>7, <1>8 DEF rest

(* A comment is not all there is to a value: it begins with a word.        *)
LEMMA NeverAllComment ==
  ASSUME NEW line \in Line
  PROVE  WithoutComment(line.value) = <<>> <=> line.value = <<>>
<1> DEFINE value == line.value  rest == WithoutComment(value)
<1>1. value \in Value /\ (value = <<>> \/ value[1] \in Word)
  BY DEF Line
<1>2. /\ rest \in Value /\ Len(rest) \in 0 .. Len(value)
      /\ Len(rest) = Len(value) \/ value[Len(rest) + 1] \in ToSet(Marks)
  BY <1>1, CommentFacts DEF Left
<1>3. Len(value) \in Nat /\ (value = <<>> <=> Len(value) = 0) /\ (rest = <<>> <=> Len(rest) = 0)
  BY <1>1, <1>2, EmptySeq DEF Value
<1> HIDE DEF rest, value
<1>4. ASSUME Len(rest) = 0, Len(value) # 0 PROVE FALSE
  <2>1. value[1] \in ToSet(Marks) /\ value[1] \in Word
    BY <1>1, <1>2, <1>3, <1>4
  <2>2. QED BY <2>1, ConfAssumption
<1>5. Len(rest) = 0 <=> Len(value) = 0
  BY <1>2, <1>3, <1>4
<1>6. QED BY <1>3, <1>5 DEF rest, value

-----------------------------------------------------------------------------
(* The inductive invariant: the reader is in the section that governs the  *)
(* next line.                                                              *)
ConfInv == ConfTypeOK /\ strcet = Governing(at + 1) /\ MapAsMeant

LEMMA ConfInitInv == ConfInit => ConfInv
<1> SUFFICES ASSUME ConfInit PROVE ConfInv
  OBVIOUS
<1>1. file \in Seq(Line) /\ Len(file) \in Nat
  BY ConfAssumption DEF ConfInit
<1>2. <<>> \in Value
  BY EmptySeq DEF Value
<1>3. ConfTypeOK
  BY <1>1, <1>2 DEF ConfInit, ConfTypeOK
<1>4. strcet = Governing(at + 1)
  BY DEF ConfInit, Governing
<1>5. MapAsMeant
  BY DEF ConfInit, MapAsMeant, Meant, Setting
<1>6. QED BY <1>3, <1>4, <1>5 DEF ConfInv

(* What the next line does to the section and to what is meant.            *)
LEMMA NextLine ==
  ASSUME ConfInv, at < Len(file), at' = at + 1, UNCHANGED file
  PROVE  LET line == file[at + 1] IN
           /\ line \in Line
           /\ Governing(at + 1)' = IF Names(at + 1) THEN line.name ELSE strcet
           /\ \A s \in Section, key \in Key :
                Meant(s, key)' =
                  IF ~line.hash /\ ~Names(at + 1) /\ strcet = s /\ line.key = key /\ line.value # <<>>
                  THEN UpToMark(line.value) ELSE Meant(s, key)
<1> DEFINE i == at + 1
           line == file[i]
           heads(n) == {j \in 1 .. n - 1 : Names(j)}
<1>1. file \in Seq(Line) /\ at \in Nat /\ i \in 1 .. Len(file) /\ line \in Line /\ Len(file) \in Nat
  BY ConfAssumption DEF ConfInv, ConfTypeOK
<1>2. \A n : Governing(n)' = Governing(n) /\ Names(n)' = Names(n)
  BY DEF Governing, Names
<1>3. Governing(i + 1) = IF Names(i) THEN line.name ELSE Governing(i)
  <2>1. heads(i + 1) = heads(i) \cup (IF Names(i) THEN {i} ELSE {})
    BY <1>1
  <2>2. CASE Names(i)
    <3>1. i \in heads(i + 1) /\ \A k \in heads(i + 1) : k \in Nat /\ k <= i
      BY <1>1, <2>2
    <3> DEFINE last == CHOOSE j \in heads(i + 1) : \A k \in heads(i + 1) : k <= j
    <3> HIDE DEF heads
    <3>2. last \in heads(i + 1) /\ \A k \in heads(i + 1) : k <= last
      BY <3>1
    <3>3. last = i
      <4> HIDE DEF last
      <4>1. last \in Nat /\ last <= i /\ i <= last
        BY <3>1, <3>2
      <4>2. QED BY <1>1, <4>1
    <3>4. heads(i + 1) # {}
      BY <3>1
    <3>5. Governing(i + 1) = file[last].name
      BY <3>4 DEF Governing, heads
    <3>6. QED BY <2>2, <3>3, <3>5
  <2>3. CASE ~Names(i)
    <3> DEFINE last(T) == CHOOSE j \in T : \A k \in T : k <= j
    <3>1. \A n : Governing(n) = IF heads(n) = {} THEN NoName ELSE file[last(heads(n))].name
      BY DEF Governing
    <3>2. heads(i + 1) = heads(i)
      BY <2>1, <2>3
    <3> HIDE DEF heads, last
    <3>3. QED BY <2>3, <3>1, <3>2
  <2>4. QED BY <2>2, <2>3
<1>4. ASSUME NEW s \in Section, NEW key \in Key
      PROVE  Meant(s, key)' =
               IF ~line.hash /\ ~Names(i) /\ strcet = s /\ line.key = key /\ line.value # <<>>
               THEN UpToMark(line.value) ELSE Meant(s, key)
  <2> DEFINE sets == ~line.hash /\ ~Names(i) /\ strcet = s /\ line.key = key /\ line.value # <<>>
             lines == Setting(s, key)
             new == lines \cup (IF sets THEN {i} ELSE {})
             last(T) == CHOOSE n \in T : \A m \in T : m <= n
  <2>1. Setting(s, key)' = {n \in 1 .. i : /\ ~file[n].hash /\ ~Names(n) /\ Governing(n) = s
                                           /\ file[n].key = key /\ file[n].value # <<>>}
    BY <1>2 DEF Setting
  <2>2. sets <=> /\ ~file[i].hash /\ ~Names(i) /\ Governing(i) = s
                 /\ file[i].key = key /\ file[i].value # <<>>
    BY DEF ConfInv
  <2>3. 1 .. i = (1 .. at) \cup {i}
    BY <1>1
  <2>4. Setting(s, key)' = new
    <3> HIDE DEF sets
    <3>1. QED BY <2>1, <2>2, <2>3 DEF Setting
  <2>5. lines \subseteq 1 .. at
    BY DEF Setting
  <2>6. Meant(s, key)' = IF new = {} THEN <<>> ELSE UpToMark(file[last(new)].value)
    <3>1. Meant(s, key)' = LET T == Setting(s, key)' IN
            IF T = {} THEN <<>> ELSE UpToMark(file[last(T)].value)
      BY DEF Meant, UpToMark
    <3> HIDE DEF new, last
    <3>2. QED BY <2>4, <3>1
  <2>7. CASE sets
    <3>1. i \in new /\ \A m \in new : m \in Nat /\ m <= i
      BY <1>1, <2>5, <2>7
    <3> HIDE DEF new
    <3>2. last(new) \in new /\ \A m \in new : m <= last(new)
      BY <3>1
    <3> HIDE DEF last
    <3>3. last(new) = i
      BY <1>1, <3>1, <3>2
    <3>4. QED BY <2>6, <2>7, <3>1, <3>3
  <2>8. CASE ~sets
    <3>1. new = lines
      BY <2>8
    <3>2. Meant(s, key) = IF lines = {} THEN <<>> ELSE UpToMark(file[last(lines)].value)
      BY DEF Meant
    <3>3. QED BY <2>6, <2>8, <3>1, <3>2
  <2>9. QED BY <2>7, <2>8
<1>5. Governing(at + 1)' = Governing(i + 1)
  <2>1. Governing(at + 1)' = Governing(at' + 1)
    BY DEF Governing, Names
  <2>2. QED BY <2>1
<1>6. strcet = Governing(i)
  BY DEF ConfInv
<1>7. QED
  <2> HIDE DEF line, heads
  <2>1. QED BY <1>1, <1>3, <1>4, <1>5, <1>6 DEF line

LEMMA ReadLineStep ==
  ASSUME ConfInv, ReadLine
  PROVE  ConfInv'
<1> DEFINE line == file[at + 1]
           cut == WithoutComment(line.value)
           entry == /\ ~line.hash /\ line.name = NoHeader
                    /\ strcet # NoName /\ line.key # NoName /\ cut # <<>>
<1>1. at < Len(file) /\ at' = at + 1 /\ UNCHANGED file
  BY DEF ReadLine
<1>2. /\ line \in Line
      /\ Governing(at + 1)' = IF Names(at + 1) THEN line.name ELSE strcet
      /\ \A s \in Section, key \in Key :
           Meant(s, key)' =
             IF ~line.hash /\ ~Names(at + 1) /\ strcet = s /\ line.key = key /\ line.value # <<>>
             THEN UpToMark(line.value) ELSE Meant(s, key)
  BY <1>1, NextLine
<1>3. Names(at + 1) <=> ~line.hash /\ line.name # NoHeader
  BY DEF Names
<1>4. /\ line.hash \in BOOLEAN /\ line.name \in Section \cup {NoName, NoHeader}
      /\ line.key \in Key \cup {NoName} /\ line.value \in Value
  BY <1>2 DEF Line
<1>5. cut = UpToMark(line.value) /\ cut \in Value /\ (cut = <<>> <=> line.value = <<>>)
  BY <1>2, <1>4, CommentCut, NeverAllComment
<1>6. /\ strcet' = IF Names(at + 1) THEN line.name ELSE strcet
      /\ Mymap' = IF entry THEN [Mymap EXCEPT ![<<strcet, line.key>>] = cut] ELSE Mymap
  <2> HIDE DEF cut
  <2>1. QED BY <1>3 DEF ReadLine, cut
<1> HIDE DEF line, cut
<1>7. /\ file \in Files /\ at \in 0 .. Len(file) /\ Len(file) \in Nat
      /\ strcet \in Section \cup {NoName} /\ Mymap \in [Section \X Key -> Value] /\ NoName \notin Section \cup Key
  <2>1. file \in Seq(Line)
    BY ConfAssumption DEF ConfInv, ConfTypeOK
  <2>2. QED BY <2>1, ConfAssumption DEF ConfInv, ConfTypeOK
<1>8. entry => strcet \in Section /\ line.key \in Key /\ <<strcet, line.key>> \in Section \X Key
  BY <1>4, <1>7
<1>9. ConfTypeOK'
  <2>1. at' \in 0 .. Len(file')
    BY <1>1, <1>7
  <2>2. strcet' \in Section \cup {NoName}
    BY <1>3, <1>4, <1>6, <1>7
  <2>3. Mymap' \in [Section \X Key -> Value]
    BY <1>5, <1>6, <1>7, <1>8
  <2>4. QED BY <1>1, <1>7, <2>1, <2>2, <2>3 DEF ConfTypeOK
<1>10. ASSUME NEW s \in Section, NEW key \in Key PROVE Mymap'[<<s, key>>] = Meant(s, key)'
  <2>1. Mymap[<<s, key>>] = Meant(s, key)
    BY DEF ConfInv, MapAsMeant
  <2>2. <<s, key>> = <<strcet, line.key>> <=> s = strcet /\ key = line.key
    OBVIOUS
  <2>3. Mymap'[<<s, key>>] = IF entry /\ s = strcet /\ key = line.key THEN cut ELSE Mymap[<<s, key>>]
    BY <1>6, <1>7, <1>8, <2>2
  <2>4. entry /\ s = strcet /\ key = line.key
        <=> ~line.hash /\ ~Names(at + 1) /\ strcet = s /\ line.key = key /\ line.value # <<>>
    BY <1>3, <1>5, <1>7
  <2>5. QED BY <1>2, <1>5, <2>1, <2>3, <2>4
<1>11. MapAsMeant'
  BY <1>10 DEF MapAsMeant
<1>12. strcet' = Governing(at + 1)'
  BY <1>2, <1>6
<1>13. QED BY <1>9, <1>11, <1>12 DEF ConfInv

LEMMA ConfInvariant == ConfSpec => []ConfInv
<1>1. ASSUME ConfInv, UNCHANGED confVars PROVE ConfInv'
  <2>1. ConfTypeOK'
    BY <1>1 DEF ConfInv, ConfTypeOK, confVars
  <2>2. \A n : Governing(n)' = Governing(n) /\ Names(n)' = Names(n)
    BY <1>1 DEF Governing, Names, confVars
  <2>3. ASSUME NEW s \in Section, NEW key \in Key PROVE Meant(s, key)' = Meant(s, key)
    <3>1. Setting(s, key)' = Setting(s, key)
      BY <1>1, <2>2 DEF Setting, confVars
    <3>2. QED BY <1>1, <3>1 DEF Meant, UpToMark, confVars
  <2>4. Governing(at + 1)' = Governing(at + 1)
    BY <1>1 DEF Governing, Names, confVars
  <2>5. QED BY <1>1, <2>1, <2>3, <2>4 DEF ConfInv, MapAsMeant, confVars
<1>2. QED BY <1>1, ConfInitInv, ReadLineStep, PTL DEF ConfSpec

-----------------------------------------------------------------------------
(* The theorems.                                                           *)

(* The variables of InitConfig keep their types (conf_util.go:46-119).     *)
THEOREM ConfTypeCorrect == ConfSpec => []ConfTypeOK
<1>1. ConfInv => ConfTypeOK
  BY DEF ConfInv
<1>2. QED BY <1>1, ConfInvariant, PTL

(* For every file: after each line the map holds what the lines before say *)
(* (conf_util.go:56-119).                                                  *)
THEOREM MapAlwaysAsMeant == ConfSpec => []MapAsMeant
<1>1. ConfInv => MapAsMeant
  BY DEF ConfInv
<1>2. QED BY <1>1, ConfInvariant, PTL

(* For every file: Read falls back to the default section                  *)
(* (conf_util.go:135-144).                                                 *)
THEOREM ReadAlwaysAsMeant == ConfSpec => []ReadAsMeant
<1>1. ConfInv => ReadAsMeant
  <2> SUFFICES ASSUME ConfInv PROVE ReadAsMeant
    OBVIOUS
  <2>1. \A s \in Section, key \in Key : ReadByMode(s, key) = Meant(s, key)
    BY DEF ConfInv, MapAsMeant, ReadByMode
  <2>2. Default \in Section /\ RunMode \in Key
    BY ConfAssumption
  <2>3. QED BY <2>1, <2>2 DEF ReadAsMeant, Read, ReadByMode
<1>2. QED BY <1>1, ConfInvariant, PTL
=============================================================================
