--------------------------- MODULE ObjectExchange ---------------------------
(***************************************************************************)
(* One REST object sent as a document and read at the other end: as the    *)
(* body of a request, or as the answer of another service.  On the way     *)
(* members of the document may be missing, null, of another JSON type, or  *)
(* partly unreadable: whoever wrote it runs another version, or is a       *)
(* person.  The reader starts from a new object or from one it holds       *)
(* already, and may read the same document a second time.                  *)
(***************************************************************************)
EXTENDS JsonDocument, FiniteSets

CONSTANTS
  Items,        \* what a scalar or an element of a list may be
  Types,        \* the types of the REST objects
  Losses,       \* the <<type, name>> that are sent and never read
  Lenient,      \* the types whose from_json never refuses
  Made(_),      \* the objects of a type that a sender may have
  Kept(_),      \* the ones that a reader may hold already
  MaxHurt(_)    \* bound: members damaged in one document of a type

(* What a member of an object may hold: nothing that means something else  *)
(* on the wire.                                                            *)
Sound == {v \in Seq(Items) : v \notin {Null, Bad} /\ \A i \in DOMAIN v : v[i] # "broken"}

Field == [name : STRING, member : STRING, kind : STRING, guarded : BOOLEAN]

(* The lists of fields of a type: a member is called on the wire as in the *)
(* object, and is of one kind, in and out; a list is read once.            *)
WellFormed(t) ==
  /\ t.written \in Seq(Field) /\ t.read \in Seq(Field) /\ {t.reader, t.refuses} \subseteq BOOLEAN
  /\ \A i \in Indices(FieldsOf(t)) : FieldsOf(t)[i].member = FieldsOf(t)[i].name
  /\ \A i, j \in Indices(FieldsOf(t)) :
        FieldsOf(t)[i].name = FieldsOf(t)[j].name => FieldsOf(t)[i].kind = FieldsOf(t)[j].kind
  /\ \A i, j \in Indices(t.read) :
        t.read[i].name = t.read[j].name /\ t.read[i].kind \in ListKinds => i = j

(* What is written is read, but for the losses, and what cannot be read is *)
(* refused, but for the lenient types.                                     *)
Agree(t) ==
  t.reader =>
    /\ \A n \in Names(t.written) : n \in Names(t.read) \/ <<t.type, n>> \in Losses
    /\ t.refuses \/ t.type \in Lenient

ASSUME ExchangeAssumption ==
  /\ {"", "{}"} \subseteq Items
  /\ \A t \in Types :
    /\ WellFormed(t) /\ Agree(t)
    /\ \A obj \in Made(t) \cup Kept(t) : obj \in [Members(t) -> Sound]

VARIABLES
  type,      \* the type of the object
  mine,      \* the object at the sender
  doc,       \* the document
  hurt,      \* what happened on the way to each name that was damaged
  held,      \* the object at the reader
  was,       \* what it was before the last read
  verdict,   \* what from_json returned
  phase

exchangeVars == <<type, mine, doc, hurt, held, was, verdict, phase>>

(* A new object; whatever a member without an initialiser holds, nothing   *)
(* below depends on it.                                                    *)
Fresh(t) == [m \in Members(t) |-> IF KindOf(t, m) \in ListKinds THEN <<>> ELSE Nothing]

KindAt(n) == KindOf(type, n)

ExchangeInit ==
    /\ type \in Types
    /\ mine \in {Fresh(type)} \cup Made(type)
    /\ held \in {Fresh(type)} \cup Kept(type)
    /\ doc = << >>
    /\ hurt = << >>
    /\ was = held
    /\ verdict = TRUE
    /\ phase = "made"

(* to_json.  What no to_json of this repository writes comes from a client *)
(* that gives each field.                                                  *)
ToJson ==
    /\ phase = "made"
    /\ doc' = IF type.written = <<>> THEN [n \in Names(type.read) |-> mine[n]]
              ELSE Document(type, mine)
    /\ phase' = "sent"
    /\ UNCHANGED <<type, mine, hurt, held, was, verdict>>

(* The document is not what to_json wrote: a member of it differs. *)
Damage(n, how) ==
    /\ phase = "sent"
    /\ n \notin DOMAIN hurt /\ Cardinality(DOMAIN hurt) < MaxHurt(type)
    /\ how = "broken" => KindAt(n) \in {"values", "appended", "object"}
    /\ doc' = CASE how = "absent" -> [x \in DOMAIN doc \ {n} |-> doc[x]]
                [] how = "null"   -> [doc EXCEPT ![n] = Null]
                [] how = "bad"    -> [doc EXCEPT ![n] = Bad]
                [] how = "broken" -> [doc EXCEPT ![n] = Append(@, "broken")]
    /\ hurt' = [x \in DOMAIN hurt \cup {n} |-> IF x = n THEN how ELSE hurt[x]]
    /\ UNCHANGED <<type, mine, held, was, verdict, phase>>

(* from_json, into the object the reader has *)
FromJson ==
    /\ type.reader
    /\ \/ phase = "sent" /\ phase' = "read"
       \/ phase = "read" /\ phase' = "reread"
    /\ was' = held
    /\ held' = ReadInto(type, held, doc)
    /\ verdict' = Accepts(type, doc)
    /\ UNCHANGED <<type, mine, doc, hurt>>

ExchangeNext ==
    \/ ToJson
    \/ \E n \in DOMAIN doc, how \in {"absent", "null", "bad", "broken"} : Damage(n, how)
    \/ FromJson

ExchangeSpec == ExchangeInit /\ [][ExchangeNext]_exchangeVars

-----------------------------------------------------------------------------
(* A member that was read has the document's value, a list that is         *)
(* appended to ends with it.                                               *)
Taken(f) ==
    IF f.kind = "appended" THEN held[f.member] = was[f.member] \o doc[f.name]
    ELSE held[f.member] = doc[f.name]

Reads == {type.read[i] : i \in Indices(type.read)}
Whole == DOMAIN hurt = {}

(* Every variable holds what it is meant to hold: the document names only  *)
(* fields of the type, and both objects have its members.                  *)
ExchangeTypeOK ==
    /\ type \in Types
    /\ DOMAIN mine = Members(type) /\ DOMAIN held = Members(type) /\ DOMAIN was = Members(type)
    /\ DOMAIN doc \subseteq Names(FieldsOf(type))
    /\ verdict \in BOOLEAN
    /\ phase \in {"made", "sent", "read", "reread"}

(* No member hides another: to_json gives each a name of its own, so that  *)
(* the document an object leaves for other services holds all of it.       *)
EachMemberIsSent ==
    (phase = "sent" /\ Whole) =>
        \A i \in Indices(type.written) :
            LET f == type.written[i] IN doc[f.name] = WireValue(f, mine[f.member])

(* What one service writes the other reads back into a new object, member  *)
(* for member and under the same names: to_json and from_json of a type    *)
(* agree, except on the Losses.                                            *)
RoundTrip ==
    (phase = "read" /\ Whole /\ was = Fresh(type)) =>
        \A n \in DOMAIN doc :
            \/ <<type.type, n>> \in Losses
            \/ held[n] = mine[n]
            \/ KindAt(n) = "embedded" /\ mine[n] = Nothing

(* A document that leaves members out changes every other member and not   *)
(* those: a PUT body may hold only what is to change.  The type of a       *)
(* location or of a contact is the exception, it is reset.                 *)
PartialUpdate ==
    (phase = "read" /\ \A n \in DOMAIN hurt : hurt[n] \in {"absent", "null"}) =>
        /\ verdict
        /\ \A f \in Reads :
              IF f.name \in DOMAIN hurt THEN held[f.member] = was[f.member] \/ f.kind = "chosen"
              ELSE f.name \in DOMAIN doc => Taken(f)

(* A document of which a sound member was lost because another could not   *)
(* be read is refused, so that no caller stores half of it: the callers    *)
(* look at nothing but the answer of from_json.  Firmware::from_json never *)
(* refuses, and a part read by its own from_json loses its rest silently.  *)
HalfReadIsRefused ==
    (phase = "read" /\ type.type \notin Lenient) =>
        \A f \in Reads :
            (f.name \in DOMAIN doc /\ f.name \notin DOMAIN hurt /\ ~Taken(f))
                => ~verdict \/ f.guarded

(* Reading the same document again, as a client that retries has it read,  *)
(* changes nothing but the lists that are appended to, and those by what   *)
(* the document holds, once more.                                          *)
RetryOnlyAppends ==
    phase = "reread" =>
        \A f \in Reads :
            IF f.kind = "appended"
            THEN held[f.member] \in
                    {was[f.member]} \cup (IF Mentioned(doc, f.name)
                                         THEN {was[f.member] \o Readable(doc[f.name])} ELSE {})
            ELSE held[f.member] = was[f.member]

(* The invariants of an exchange together: the variables hold what they    *)
(* are meant to, no member hides another on the wire, a partial document   *)
(* changes what it names, and a second reading only appends.               *)
ExchangeInvariant == ExchangeTypeOK /\ EachMemberIsSent /\ PartialUpdate /\ RetryOnlyAppends
=============================================================================
