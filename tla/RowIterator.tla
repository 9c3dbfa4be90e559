---------------------------- MODULE RowIterator ----------------------------
(***************************************************************************)
(* The rows of a query of Spanner (spanner/read.go): RowIterator takes     *)
(* partial result sets from a ResumableStream and puts rows together from  *)
(* the values in them.  The last value of a set may be a part of one; the  *)
(* next set then begins with the next part of it, and merge joins them.    *)
(*                                                                         *)
(* A piece of a result is a value or a part of one; ends says that it is   *)
(* the last of its value.  What two parts make is the parameter Merge:     *)
(* that the rows come out whole depends on when parts are merged, not on   *)
(* how (see ValueMerge).                                                   *)
(***************************************************************************)
EXTENDS ResumableStream

CONSTANTS Columns, Results, None,
          Merge(_, _) \* of two parts of a value: None if they do not fit

(* What the pieces of a result make, the first n of them these values, of  *)
(* which the last may be a part.                                           *)
Starts(r, n) == n = 1 \/ r.pieces[n - 1].ends

Cells(r) ==
  LET cells[n \in 0 .. Len(r.pieces)] ==
        IF n = 0 THEN <<>>
        ELSE IF Starts(r, n) THEN Append(cells[n - 1], r.pieces[n].value)
        ELSE Append(Front(cells[n - 1]), Merge(Last(cells[n - 1]), r.pieces[n].value))
  IN cells

Fits(r, n) == Starts(r, n) \/ Merge(Last(Cells(r)[n - 1]), r.pieces[n].value) # None

(* Of n pieces, those that are the last of their value.                    *)
Ended(r, n) == {k \in 1 .. n : r.pieces[k].ends}

(* The rows of a result are its values, Columns to a row.  A faulty one    *)
(* has parts that do not fit, and no rows from there on.                   *)
ASSUME RowAssumption ==
  /\ Columns \in Nat \ {0}
  /\ \A r \in Results :
       /\ r.rows \in Seq(ToSet(r.rows)) /\ r.pieces \in Seq(ToSet(r.pieces))
       /\ \A p \in ToSet(r.pieces) : p.ends \in BOOLEAN
       /\ r.faulty <=> \E n \in 1 .. Len(r.pieces) : ~Fits(r, n)
       /\ \A n \in 0 .. Len(r.pieces) : (\A k \in 1 .. n : Fits(r, k)) =>
            /\ \A i \in 1 .. Cardinality(Ended(r, n)) \div Columns :
                 i <= Len(r.rows) /\ r.rows[i] = SubSeq(Cells(r)[n], (i - 1) * Columns + 1, i * Columns)
            /\ n = Len(r.pieces) =>
                 Cardinality(Ended(r, n)) = Len(r.rows) * Columns /\ (n # 0 => r.pieces[n].ends)

VARIABLES
  result,           \* constant: the rows the query has and the pieces they are sent in
  fields,           \* whether the columns are known
  vals, chunked,    \* row.vals, chunked of the partialResultSetDecoder
  rows, iterErr,    \* rows, err of the RowIterator; "done" for iterator.Done
  asked,            \* whether it is in Next
  out               \* history: the rows Next has returned

iterVars == <<result, fields, vals, chunked, rows, iterErr, asked, out>>
vars == <<iterVars, streamVars>>

Init ==
  /\ result \in Results /\ length = Len(result.pieces) /\ StreamInit
  /\ fields = FALSE /\ vals = <<>> /\ chunked = FALSE
  /\ rows = <<>> /\ iterErr = "nil" /\ asked = FALSE /\ out = <<>>

-----------------------------------------------------------------------------
(* The values of a set, and whether the last is to be continued.           *)
Values(set) == [i \in 1 .. set.to - set.from |-> result.pieces[set.from + i].value]
ChunkedValue(set) == set.to # set.from /\ ~result.pieces[set.to].ends

(* Mutant: it does not matter that the last is to be continued.            *)
CompleteEarly(n, chunkedValue, last) == n = IF fields' THEN Columns ELSE 0

(* yield: n values make a row unless the last of them is to be continued.  *)
Complete(n, chunkedValue, last) ==
  /\ n = IF fields' THEN Columns ELSE 0
  /\ ~chunkedValue \/ ~last

(* What add makes of the i-th value of a set: the first is merged with the *)
(* last value of the row if that was to be continued.                      *)
Place(set, acc, i) ==
  LET v == Values(set)[i]
      new == IF i = 1 /\ chunked THEN [acc.vals EXCEPT ![Len(acc.vals)] = Merge(@, v)]
             ELSE Append(acc.vals, v)
  IN IF Complete(Len(new), ChunkedValue(set), i = set.to - set.from)
     THEN [vals |-> <<>>, rows |-> Append(acc.rows, new)]
     ELSE [vals |-> new, rows |-> acc.rows]

Added(set) ==
  LET acc[i \in 0 .. set.to - set.from] ==
        IF i = 0 THEN [vals |-> vals, rows |-> <<>>] ELSE Place(set, acc[i - 1], i)
  IN acc[set.to - set.from]

-----------------------------------------------------------------------------
(* Next has a row in store.                                                *)
NextInStore ==
  /\ ~asked /\ iterErr = "nil" /\ rows # <<>>
  /\ out' = Append(out, Head(rows)) /\ rows' = Tail(rows)
  /\ UNCHANGED <<result, fields, vals, chunked, iterErr, asked, streamVars>>

(* It has not, and asks the stream.                                        *)
NextAsks ==
  /\ ~asked /\ iterErr = "nil" /\ rows = <<>> /\ asked' = TRUE /\ Call
  /\ UNCHANGED <<result, fields, vals, chunked, rows, iterErr, out>>

(* The stream has a set, which add puts to the row.  Next goes on unless   *)
(* it has a row now or the value cannot be merged.                         *)
Add ==
  /\ asked /\ at = "out" /\ ok
  /\ fields' = (fields \/ np.from = 0)
  /\ \/ /\ np.to = np.from \* metadata only
        /\ Call /\ UNCHANGED <<vals, chunked, rows, iterErr, asked, out>>
     \/ /\ np.to # np.from
        /\ chunked => vals # <<>> /\ Merge(Last(vals), Values(np)[1]) # None
        /\ chunked' = ChunkedValue(np) /\ vals' = Added(np).vals
        /\ LET new == Added(np).rows IN
           \/ new = <<>> /\ Call /\ UNCHANGED <<rows, iterErr, asked, out>>
           \/ /\ new # <<>> /\ out' = Append(out, new[1]) /\ rows' = Tail(new) /\ asked' = FALSE
              /\ UNCHANGED <<iterErr, streamVars>>
     \/ /\ np.to # np.from /\ chunked
        /\ vals = <<>> \/ Merge(Last(vals), Values(np)[1]) = None
        /\ chunked' = FALSE /\ asked' = FALSE
        /\ iterErr' = IF vals = <<>> THEN "emptyRow" ELSE "merge"
        /\ UNCHANGED <<vals, rows, out, streamVars>>
  /\ UNCHANGED result

(* Mutant: what is left of a row at the end is not looked at.              *)
EndUnlooked ==
  /\ asked /\ at = "out" /\ ~ok /\ asked' = FALSE
  /\ iterErr' = IF err # "nil" THEN err ELSE "done"
  /\ UNCHANGED <<result, fields, vals, chunked, rows, out, streamVars>>

(* The stream has none.                                                    *)
End ==
  /\ asked /\ at = "out" /\ ~ok /\ asked' = FALSE
  /\ iterErr' = IF err # "nil" THEN err
                ELSE IF vals # <<>> \/ chunked THEN "early" ELSE "done"
  /\ UNCHANGED <<result, fields, vals, chunked, rows, out, streamVars>>

(* Stop, which Do calls when its function fails, too; Next then fails.     *)
Stop ==
  /\ ~asked /\ done' = TRUE
  /\ iterErr' = IF iterErr = "nil" THEN "stopped" ELSE iterErr
  /\ UNCHANGED <<result, fields, vals, chunked, rows, asked, out>>
  /\ UNCHANGED <<length, state, q, np, resumeToken, err, bytes, sent, at, ok>>

(* The server starts a new set after a part of a value.                    *)
Sends ==
  \E to \in sent .. length, token \in BOOLEAN :
    /\ \A k \in sent + 1 .. to - 1 : result.pieces[k].ends
    /\ Receives([from |-> sent, to |-> to, token |-> token])

Iterator == NextInStore \/ NextAsks \/ Add \/ End \/ Stop
Stream == (Cancel \/ Own \/ Server \/ Sends) /\ UNCHANGED iterVars

Next == Iterator \/ Stream

Spec == Init /\ [][Next]_vars

(* What is not up to the server or the caller goes on.                     *)
QueryFairness == WF_vars(Add \/ End \/ (Own /\ UNCHANGED iterVars))

-----------------------------------------------------------------------------
(* Properties                                                              *)

(* What Next has returned and will return from what it has in store are    *)
(* the first rows of the query, one after the other, whole, whatever the   *)
(* server packs into a set, wherever it cuts a value and however often the *)
(* stream breaks.                                                          *)
RowsAsSent == IsPrefix(out \o rows, result.rows)

(* Those that n pieces make whole.                                         *)
RowsIn(n) == SubSeq(result.rows, 1, Cardinality(Ended(result, n)) \div Columns)

(* The iteration is done only when every row that was sent has been        *)
(* returned and the last one is whole, it is called early only when one    *)
(* is not, and what read.go:567 calls a sanity check never fails.  Without *)
(* an error the server has sent all rows, unless it ended the stream.      *)
EndsAsSent ==
  /\ iterErr = "done" =>
       /\ out = RowsIn(sent)
       /\ Cardinality(Ended(result, sent)) % Columns = 0
       /\ sent # 0 => result.pieces[sent].ends
       /\ sent = length \/ "truncate" \in Faults
  /\ iterErr = "early" => sent # length /\ out = RowsIn(sent)
  /\ iterErr = "merge" => result.faulty
  /\ iterErr # "emptyRow"

(* A call of Next ends when the context does, whatever the server does,    *)
(* "so that even gRPC failed to do so" it breaks the loop (read.go:359).   *)
CanceledReturns == asked /\ done ~> ~asked
=============================================================================
