----------------------------- MODULE CertObjects ------------------------------
(*****************************************************************************)
(* The objects of the certificate service (RESTAPI_CertObjects.cpp).         *)
(*****************************************************************************)
EXTENDS JsonDocument

CertificateEntry ==
    Both("Cert.CertificateEntry",
        Text(<<"id", "entity", "creator", "type", "status", "certificate",
        "key", "devid", "cas", "manufacturer", "model", "redirector",
        "commonName", "certificateId", "batch">>) \o Number(<<"created",
        "modified", "revoked", "revokeCount", "synched", "expiryDate">>))

EntityEntry ==
    Both("Cert.EntityEntry",
        Text(<<"id", "creator", "name", "description", "defaultRedirector",
        "apiKey", "serverEnrollmentProfile", "clientEnrollmentProfile",
        "organization">>) \o Number(<<"created", "modified">>)
        \o Flag(<<"suspended", "deleted">>) \o Objects(<<"notes">>))

BatchEntry ==
    Both("Cert.BatchEntry",
        Text(<<"id", "entity", "creator", "name", "description",
        "manufacturer", "model", "redirector">>) \o Values(<<"commonNames",
        "jobHistory">>) \o Objects(<<"notes">>) \o Number(<<"submitted",
        "started", "completed", "modified">>))

JobEntry ==
    Both("Cert.JobEntry",
        Text(<<"id", "entity", "creator", "batch">>)
        \o Values(<<"commonNames", "completedNames", "errorNames">>)
        \o Text(<<"status", "command">>) \o Pairs(<<"parameters">>)
        \o Number(<<"submitted", "started", "completed">>)
        \o Text(<<"requesterUsername">>))

DashBoardYearlyStats ==
    WriteOnly("Cert.DashBoardYearlyStats",
        Number(<<"year">>) \o Counts(<<"activeCerts", "revokedCerts">>))

Dashboard ==
    WriteOnly("Cert.Dashboard",
        Number(<<"snapshot", "numberOfIssuedCerts", "numberOfRevokedCerts">>)
        \o Counts(<<"activeCertsPerOrganization",
        "revokedCertsPerOrganization", "numberOfRedirectors", "deviceTypes",
        "monthlyNumberOfCerts">>)
        \o Objects(<<"monthlyNumberOfCertsPerOrgPerYear">>))

CertTypes ==
    {CertificateEntry, EntityEntry, BatchEntry, JobEntry,
     DashBoardYearlyStats, Dashboard}
===============================================================================
