-------------------------- MODULE MCObjectExchange --------------------------
(* Every type of the eight namespaces of REST objects. *)
EXTENDS ObjectExchange

FMS == INSTANCE FMSObjects
Security == INSTANCE SecurityObjects
Provisioning == INSTANCE ProvObjects
Gateway == INSTANCE GWObjects
Analytics == INSTANCE AnalyticsObjects
Certificates == INSTANCE CertObjects
Simulator == INSTANCE OWLSObjects
Subscribers == INSTANCE SubObjects

MCTypes ==
    UNION {FMS!FMSTypes, Security!SecTypes, Provisioning!ProvTypes, Gateway!GWTypes,
           Analytics!AnalyticsTypes, Certificates!CertTypes, Simulator!OWLSTypes,
           Subscribers!SubTypes}

(* DeviceReport::from_json reads nothing; the error code of a token and the *)
(* dates of a default configuration are only written.                       *)
MCLosses ==
    {<<"FMS.DeviceReport", n>> : n \in Names(FMS!DeviceReport.written)}
        \cup {<<"Sec.WebToken", "errorCode">>,
              <<"GW.DefaultConfiguration", "created">>,
              <<"GW.DefaultConfiguration", "lastModified">>}

MCItems == STRING

(* The sender's object: every member has a value of its own. *)
Filled(t) == [m \in Members(t) |-> IF KindOf(t, m) \in ListKinds THEN <<m, "more">> ELSE <<m>>]
MCMade(t) == {Filled(t)}

(* An object the reader already has, as the one a PUT is applied to. *)
Stored(t) == [m \in Members(t) |-> <<"stored">>]
MCKept(t) == {Stored(t)}

(* Two damages at once in the objects of this service that are small. *)
MCMaxHurt(t) == IF t \in FMS!FMSTypes /\ Cardinality(Members(t)) <= 8 THEN 2 ELSE 1

MCLenient == {"FMS.Firmware"}
=============================================================================
