----------------------------- MODULE ProvObjects ------------------------------
(*****************************************************************************)
(* The objects of the provisioning service: entities, venues, inventory      *)
(* and their rules (RESTAPI_ProvObjects.cpp). Most of them write an          *)
(* ObjectInfo into their own document.                                       *)
(*****************************************************************************)
EXTENDS JsonDocument

Info ==
    Text(<<"id", "name", "description">>) \o Number(<<"created", "modified">>)
    \o Objects(<<"notes">>) \o Values(<<"tags">>)

ObjectInfo == Both("Prov.ObjectInfo", Info)

ManagementPolicyEntry ==
    Both("Prov.ManagementPolicyEntry",
        Values(<<"users", "resources", "access">>) \o Text(<<"policy">>))

ManagementPolicy ==
    Both("Prov.ManagementPolicy",
        Inlined(Info) \o Objects(<<"entries">>) \o Values(<<"inUse">>)
        \o Text(<<"entity">>))

Entity ==
    Both("Prov.Entity",
        Inlined(Info) \o Text(<<"parent">>) \o Values(<<"venues", "children",
        "contacts", "locations">>) \o Text(<<"managementPolicy">>)
        \o Values(<<"deviceConfiguration", "devices">>)
        \o Object(<<"deviceRules">>) \o Values(<<"sourceIP", "variables",
        "managementPolicies", "managementRoles", "maps", "configurations">>))

DiGraphEntry == Both("Prov.DiGraphEntry", Text(<<"parent", "child">>))

Venue ==
    Both("Prov.Venue",
        Inlined(Info) \o Text(<<"parent", "entity">>) \o Values(<<"children",
        "devices">>) \o Objects(<<"topology">>) \o Text(<<"parent", "design",
        "managementPolicy">>) \o Values(<<"deviceConfiguration", "contacts">>)
        \o Text(<<"location">>) \o Object(<<"deviceRules">>)
        \o Values(<<"sourceIP", "variables", "managementPolicies",
        "managementRoles", "maps", "configurations", "boards">>))

Operator ==
    Both("Prov.Operator",
        Inlined(Info) \o Text(<<"managementPolicy">>)
        \o Values(<<"managementRoles">>) \o Object(<<"deviceRules">>)
        \o Objects(<<"variables">>) \o Flag(<<"defaultOperator">>)
        \o Values(<<"sourceIP">>) \o Text(<<"registrationId">>))

OperatorList == Both("Prov.OperatorList", Objects(<<"operators">>))

ServiceClass ==
    Both("Prov.ServiceClass",
        Inlined(Info) \o Text(<<"operatorId", "managementPolicy">>)
        \o Number(<<"cost">>) \o Text(<<"currency", "period", "billingCode">>)
        \o Objects(<<"variables">>) \o Flag(<<"defaultService">>))

ServiceClassList ==
    Both("Prov.ServiceClassList",
        Objects(<<"serviceClasses">>))

UserInfoDigest ==
    Both("Prov.UserInfoDigest",
        Text(<<"id", "entity", "children">>))

ManagementRole ==
    Both("Prov.ManagementRole",
        Inlined(Info) \o Text(<<"managementPolicy">>) \o Values(<<"users">>)
        \o Text(<<"entity", "venue">>))

Location ==
    Both("Prov.Location",
        Inlined(Info) \o Chosen(<<"type">>) \o Text(<<"buildingName">>)
        \o Values(<<"addressLines">>) \o Text(<<"city", "state", "postal",
        "country">>) \o Values(<<"phones", "mobiles">>) \o Text(<<"geoCode">>)
        \o Values(<<"inUse">>) \o Text(<<"entity", "managementPolicy">>))

OperatorLocation ==
    Both("Prov.OperatorLocation",
        Inlined(Info) \o Text(<<"type", "buildingName">>)
        \o Values(<<"addressLines">>) \o Text(<<"city", "state", "postal",
        "country">>) \o Values(<<"phones", "mobiles">>) \o Text(<<"geoCode",
        "operatorId", "subscriberDeviceId", "managementPolicy">>))

SubLocation ==
    Both("Prov.SubLocation",
        Text(<<"type", "buildingName">>) \o Values(<<"addressLines">>)
        \o Text(<<"city", "state", "postal", "country">>) \o Values(<<"phones",
        "mobiles">>) \o Text(<<"geoCode">>))

OperatorLocationList ==
    Both("Prov.OperatorLocationList",
        Objects(<<"locations">>))

Contact ==
    Both("Prov.Contact",
        Inlined(Info) \o Chosen(<<"type">>) \o Text(<<"title", "salutation",
        "firstname", "lastname", "initials", "visual">>)
        \o Values(<<"mobiles", "phones">>) \o Text(<<"primaryEmail",
        "secondaryEmail", "accessPIN">>) \o Values(<<"inUse">>)
        \o Text(<<"entity", "managementPolicy">>))

OperatorContact ==
    Both("Prov.OperatorContact",
        Inlined(Info) \o Text(<<"type", "title", "salutation", "firstname",
        "lastname", "initials", "visual">>) \o Values(<<"mobiles", "phones">>)
        \o Text(<<"primaryEmail", "secondaryEmail", "accessPIN", "operatorId",
        "subscriberDeviceId", "managementPolicy">>))

SubContact ==
    Both("Prov.SubContact",
        Text(<<"type", "title", "salutation", "firstname", "lastname",
        "initials", "visual">>) \o Values(<<"mobiles", "phones">>)
        \o Text(<<"primaryEmail", "secondaryEmail", "accessPIN">>))

OperatorContactList ==
    Both("Prov.OperatorContactList",
        Objects(<<"contacts">>))

InventoryTag ==
    Both("Prov.InventoryTag",
        Inlined(Info) \o Text(<<"serialNumber", "venue", "entity",
        "subscriber", "deviceType", "qrCode", "geoCode", "location",
        "contact", "deviceConfiguration">>) \o Object(<<"deviceRules">>)
        \o Text(<<"managementPolicy", "state", "devClass", "locale",
        "realMacAddress">>) \o Flag(<<"doNotAllowOverrides">>)
        \o Number(<<"imported", "connected">>) \o Text(<<"platform">>))

InventoryConfigApplyResult ==
    Both("Prov.InventoryConfigApplyResult",
        Text(<<"appliedConfiguration">>) \o Values(<<"warnings", "errors">>)
        \o Number(<<"errorCode">>))

InventoryTagList == Both("Prov.InventoryTagList", Objects(<<"taglist">>))

DeviceConfigurationElement ==
    Both("Prov.DeviceConfigurationElement",
        Text(<<"name", "description">>) \o Number(<<"weight">>)
        \o Text(<<"configuration">>))

DeviceConfiguration ==
    Both("Prov.DeviceConfiguration",
        Inlined(Info) \o Text(<<"managementPolicy">>)
        \o Values(<<"deviceTypes", "inUse", "variables">>)
        \o Flag(<<"subscriberOnly">>) \o Text(<<"entity", "venue",
        "subscriber">>) \o Objects(<<"configuration">>)
        \o Object(<<"deviceRules">>))

Report ==
    WriteOnly("Prov.Report",
        Number(<<"snapshot">>) \o Counts(<<"devices">>))

ExpandedUseEntry ==
    Both("Prov.ExpandedUseEntry",
        Text(<<"uuid", "name", "description">>))

ExpandedUseEntryList ==
    Both("Prov.ExpandedUseEntryList",
        Text(<<"type">>) \o Objects(<<"entries">>))

ExpandedUseEntryMapList ==
    Both("Prov.ExpandedUseEntryMapList",
        Objects(<<"entries">>))

UuidList == Both("Prov.UuidList", Values(<<"list">>))

ObjectACL ==
    Both("Prov.ObjectACL",
        Object(<<"users", "roles">>) \o Number(<<"access">>))

ObjectACLList == Both("Prov.ObjectACLList", Objects(<<"list">>))

Map ==
    Both("Prov.Map",
        Inlined(Info) \o Text(<<"data", "entity", "creator", "visibility">>)
        \o Object(<<"access">>) \o Text(<<"managementPolicy", "venue">>))

SerialNumberList == Both("Prov.SerialNumberList", Values(<<"serialNumbers">>))

MapList == Both("Prov.MapList", Objects(<<"list">>))

SignupEntry ==
    Both("Prov.SignupEntry",
        Inlined(Info) \o Text(<<"email", "userId", "macAddress",
        "serialNumber">>) \o Number(<<"submitted", "completed">>)
        \o Text(<<"status">>) \o Number(<<"error", "statusCode">>)
        \o Text(<<"deviceID", "registrationId", "operatorId">>))

Variable ==
    Both("Prov.Variable",
        Text(<<"type">>) \o Number(<<"weight">>) \o Text(<<"prefix",
        "value">>))

VariableList == Both("Prov.VariableList", Objects(<<"variables">>))

VariableBlock ==
    Both("Prov.VariableBlock",
        Inlined(Info) \o Objects(<<"variables">>) \o Text(<<"entity", "venue",
        "subscriber", "inventory">>) \o Values(<<"configurations">>)
        \o Text(<<"managementPolicy">>))

VariableBlockList ==
    Both("Prov.VariableBlockList",
        Objects(<<"variableBlocks">>))

ConfigurationDetails ==
    Both("Prov.ConfigurationDetails",
        Objects(<<"configuration">>) \o Text(<<"rrm", "firmwareRCOnly",
        "firmwareUpgrade">>))

SubscriberDevice ==
    Both("Prov.SubscriberDevice",
        Inlined(Info) \o Text(<<"serialNumber", "deviceType", "operatorId",
        "subscriberId">>) \o Object(<<"location", "contact">>)
        \o Text(<<"managementPolicy", "serviceClass", "qrCode", "geoCode">>)
        \o Object(<<"deviceRules">>) \o Text(<<"state", "locale",
        "billingCode">>) \o Objects(<<"configuration">>)
        \o Flag(<<"suspended">>) \o Text(<<"realMacAddress">>))

SubscriberDeviceList ==
    Both("Prov.SubscriberDeviceList",
        Objects(<<"subscriberDevices">>))

VenueDeviceList ==
    Both("Prov.VenueDeviceList",
        Text(<<"id", "name", "description">>) \o Values(<<"devices">>))

DeviceRules ==
    Both("Prov.DeviceRules",
        Text(<<"rcOnly", "rrm", "firmwareUpgrade">>))

RRMAlgorithmDetails ==
    Both("Prov.RRMAlgorithmDetails",
        Text(<<"name", "parameters">>))

RRMDetails ==
    Both("Prov.RRMDetails",
        Text(<<"vendor", "schedule">>) \o Objects(<<"algorithms">>))

ConfigurationOverride ==
    Both("Prov.ConfigurationOverride",
        Text(<<"source", "reason", "parameterName", "parameterType",
        "parameterValue">>) \o Number(<<"modified">>))

ConfigurationOverrideList ==
    Both("Prov.ConfigurationOverrideList",
        Text(<<"serialNumber", "managementPolicy">>)
        \o Objects(<<"overrides">>))

GLBLRAccountInfo ==
    Both("Prov.GLBLRAccountInfo",
        Inlined(Info) \o Text(<<"privateKey", "country", "province", "city",
        "organization", "commonName", "CSR", "CSRPrivateKey", "CSRPublicKey",
        "GlobalReachAcctId">>))

GLBLRCertificateInfo ==
    Both("Prov.GLBLRCertificateInfo",
        Text(<<"id", "name", "accountId", "csr", "certificate",
        "certificateChain", "certificateId">>) \o Number(<<"expiresAt",
        "created">>))

GooglOrionAccountInfo ==
    Both("Prov.GooglOrionAccountInfo",
        Inlined(Info) \o Text(<<"privateKey", "certificate">>)
        \o Values(<<"cacerts">>))

RADIUSServer ==
    Both("Prov.RADIUSServer",
        Text(<<"Hostname", "IP">>) \o Number(<<"Port">>) \o Text(<<"Secret">>))

RADIUSEndPointRadiusType ==
    Both("Prov.RADIUSEndPointRadiusType",
        Objects(<<"Authentication", "Accounting", "CoA">>)
        \o Number(<<"AccountingInterval">>))

RADIUSEndPointRadsecType ==
    Both("Prov.RADIUSEndPointRadsecType",
        Text(<<"Hostname", "IP">>) \o Number(<<"Port">>) \o Text(<<"Secret",
        "OpenRoamingType", "UseOpenRoamingAccount">>) \o Number(<<"Weight">>)
        \o Text(<<"Certificate", "PrivateKey">>) \o Values(<<"CaCerts">>)
        \o Flag(<<"AllowSelfSigned">>))

RADIUSEndPoint ==
    Both("Prov.RADIUSEndPoint",
        Inlined(Info) \o Text(<<"Type">>) \o Objects(<<"RadsecServers",
        "RadiusServers">>) \o Text(<<"PoolStrategy", "Index">>)
        \o Values(<<"UsedBy">>) \o Flag(<<"UseGWProxy">>)
        \o Text(<<"NasIdentifier">>) \o Number(<<"AccountingInterval">>))

RADIUSEndpointUpdateStatus ==
    Both("Prov.RADIUSEndpointUpdateStatus",
        Number(<<"lastUpdate", "lastConfigurationChange">>))

ProvTypes ==
    {ObjectInfo, ManagementPolicyEntry, ManagementPolicy, Entity,
     DiGraphEntry, Venue, Operator, OperatorList, ServiceClass,
     ServiceClassList, UserInfoDigest, ManagementRole, Location,
     OperatorLocation, SubLocation, OperatorLocationList, Contact,
     OperatorContact, SubContact, OperatorContactList, InventoryTag,
     InventoryConfigApplyResult, InventoryTagList,
     DeviceConfigurationElement, DeviceConfiguration, Report,
     ExpandedUseEntry, ExpandedUseEntryList, ExpandedUseEntryMapList,
     UuidList, ObjectACL, ObjectACLList, Map, SerialNumberList, MapList,
     SignupEntry, Variable, VariableList, VariableBlock,
     VariableBlockList, ConfigurationDetails, SubscriberDevice,
     SubscriberDeviceList, VenueDeviceList, DeviceRules,
     RRMAlgorithmDetails, RRMDetails, ConfigurationOverride,
     ConfigurationOverrideList, GLBLRAccountInfo, GLBLRCertificateInfo,
     GooglOrionAccountInfo, RADIUSServer, RADIUSEndPointRadiusType,
     RADIUSEndPointRadsecType, RADIUSEndPoint,
     RADIUSEndpointUpdateStatus}
===============================================================================
