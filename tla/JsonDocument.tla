---------------------------- MODULE JsonDocument ----------------------------
(***************************************************************************)
(* How a REST object is written to a JSON document and read back           *)
(* (RESTAPI_utils.h).  The modules of the REST objects say, for every      *)
(* type, which fields its to_json writes and which its from_json reads, in *)
(* the order of the code; this module says what writing and reading do.    *)
(*                                                                         *)
(* A value is a sequence: a scalar has one item, a list any number of      *)
(* them.  On the wire a value may also be Null, Bad (a JSON value of       *)
(* another type than the field's), or hold the item "broken": an element,  *)
(* or a part of a nested object, that cannot be read.                      *)
(***************************************************************************)
EXTENDS Naturals, Sequences

Null == <<"null">>
Bad == <<"bad">>
Nothing == <<"">>

Fields(kind, names) ==
    [i \in 1..Len(names) |->
        [name |-> names[i], member |-> names[i], kind |-> kind, guarded |-> FALSE]]

(* What each kind of member is made of.  Values are the vectors that a read *)
(* clears first; Objects and Pairs the ones it appends to; Chosen an        *)
(* enumeration read through a temporary, Embedded a text sent as an object. *)
Text(names) == Fields("text", names)
Number(names) == Fields("number", names)
Flag(names) == Fields("flag", names)
Choice(names) == Fields("choice", names)
Chosen(names) == Fields("chosen", names)
Embedded(names) == Fields("embedded", names)
Values(names) == Fields("values", names)
Pairs(names) == Fields("appended", names)
Objects(names) == Fields("appended", names)
Object(names) == Fields("object", names)
Counts(names) == Fields("counts", names)

(* The fields of a part that is written into the same document and read by *)
(* a from_json of its own, which keeps its exceptions to itself.           *)
Inlined(fields) == [i \in 1..Len(fields) |-> [fields[i] EXCEPT !.guarded = TRUE]]

(* The types: with both conversions, with one, and with a from_json that   *)
(* says TRUE whatever happened.                                            *)
Both(name, fields) ==
    [type |-> name, written |-> fields, read |-> fields, reader |-> TRUE, refuses |-> TRUE]
Apart(name, written, read) ==
    [type |-> name, written |-> written, read |-> read, reader |-> TRUE, refuses |-> TRUE]
WriteOnly(name, fields) ==
    [type |-> name, written |-> fields, read |-> <<>>, reader |-> FALSE, refuses |-> FALSE]
ReadOnly(name, fields) == Apart(name, <<>>, fields)
Forgiving(name, fields) == [Both(name, fields) EXCEPT !.refuses = FALSE]

FieldsOf(t) == t.written \o t.read
Indices(fields) == 1..Len(fields)
Names(fields) == {fields[i].name : i \in Indices(fields)}
Members(t) == {FieldsOf(t)[i].member : i \in Indices(FieldsOf(t))}
KindOf(t, m) ==
    FieldsOf(t)[CHOOSE i \in Indices(FieldsOf(t)) : FieldsOf(t)[i].member = m].kind
ListKinds == {"values", "appended", "counts"}

(* Values.clear() before the loop that fills it. *)
Replaced(old, items) == items

-----------------------------------------------------------------------------
(* Writing. *)

(* Bug: the test for an empty text is inverted. *)
EmbedsNothing(f, v) == IF f.kind = "embedded" /\ v # Nothing THEN <<"{}">> ELSE v

(* EmbedDocument sends an empty text as an empty object. *)
WireValue(f, v) == IF f.kind = "embedded" /\ v = Nothing THEN <<"{}">> ELSE v

(* to_json: a name written twice keeps what was written last. *)
Document(t, obj) ==
    [n \in Names(t.written) |->
        LET last == CHOOSE i \in Indices(t.written) :
                        /\ t.written[i].name = n
                        /\ \A j \in Indices(t.written) : t.written[j].name = n => j <= i
        IN  WireValue(t.written[last], obj[t.written[last].member])]

-----------------------------------------------------------------------------
(* Reading. *)

Mentioned(doc, n) == n \in DOMAIN doc /\ doc[n] # Null

(* The elements that come before the first one that cannot be read. *)
Readable(w) ==
    LET ends == {k \in 1..Len(w) : w[k] = "broken"}
    IN  IF ends = {} THEN w ELSE SubSeq(w, 1, (CHOOSE k \in ends : \A e \in ends : k <= e) - 1)

(* The conversions that throw: a number, and an element of a list. *)
Throws(f, doc) ==
    /\ Mentioned(doc, f.name)
    /\ \/ f.kind = "number" /\ doc[f.name] = Bad
       \/ /\ f.kind \in {"values", "appended"}
          /\ "broken" \in {doc[f.name][i] : i \in DOMAIN doc[f.name]}

(* Bug: a field the document does not mention is cleared. *)
AfterClearing(f, old, doc) ==
    IF ~Mentioned(doc, f.name) THEN Nothing ELSE doc[f.name]

(* What field_from_json leaves in the member.  An array or an object of    *)
(* another shape is ignored, a nested object's own failure is lost.        *)
After(f, old, doc) ==
    IF ~Mentioned(doc, f.name)
    THEN IF f.kind = "chosen" THEN <<"unknown">> ELSE old
    ELSE LET w == doc[f.name]
         IN  CASE f.kind \in {"text", "embedded"} -> w
               [] f.kind \in {"choice", "chosen"} -> IF w = Bad THEN <<"unknown">> ELSE w
               [] f.kind = "flag" -> IF w = Bad THEN <<"false">> ELSE w
               [] f.kind = "values" -> IF w = Bad THEN old ELSE Replaced(old, Readable(w))
               [] f.kind = "appended" -> IF w = Bad THEN old ELSE old \o Readable(w)
               [] f.kind = "object" /\ "broken" \in {w[i] : i \in DOMAIN w} -> <<"half">>
               [] OTHER -> IF w = Bad THEN old ELSE w

(* from_json reads field after field; an exception skips those that follow, *)
(* or, inside an inlined part, those of that part.                          *)
Skipped(t, i, doc) ==
    \E j \in 1..(i - 1) : /\ Throws(t.read[j], doc)
                          /\ t.read[j].guarded => t.read[i].guarded

ReadInto(t, obj, doc) ==
    [m \in DOMAIN obj |->
        LET reads == {i \in Indices(t.read) : t.read[i].member = m /\ ~Skipped(t, i, doc)}
        IN  IF reads = {} THEN obj[m]
            ELSE After(t.read[CHOOSE i \in reads : \A j \in reads : j <= i], obj[m], doc)]

(* Bug: from_json returns TRUE from its catch too. *)
AlwaysAccepts(t, doc) == TRUE

(* What from_json returns. *)
Accepts(t, doc) ==
    t.refuses => \A i \in Indices(t.read) : Throws(t.read[i], doc) => t.read[i].guarded
=============================================================================
