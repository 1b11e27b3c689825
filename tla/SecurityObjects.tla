--------------------------- MODULE SecurityObjects ----------------------------
(*****************************************************************************)
(* The objects of the security service: users, tokens, endpoints and the     *)
(* notes every object carries (RESTAPI_SecurityObjects.cpp).                 *)
(*****************************************************************************)
EXTENDS JsonDocument

AclTemplate ==
    Both("Sec.AclTemplate",
        Flag(<<"Read", "ReadWrite", "ReadWriteCreate", "Delete",
        "PortalLogin">>))

WebToken ==
    LET common ==
            Object(<<"aclTemplate">>) \o Text(<<"access_token",
            "refresh_token", "token_type">>) \o Number(<<"expires_in",
            "idle_timeout", "created">>) \o Text(<<"username">>)
            \o Flag(<<"userMustChangePassword">>) \o Number(<<"lastRefresh">>)
    IN  Apart("Sec.WebToken", common \o Number(<<"errorCode">>), common)

MobilePhoneNumber ==
    Both("Sec.MobilePhoneNumber",
        Text(<<"number">>) \o Flag(<<"verified", "primary">>))

MfaAuthInfo ==
    Both("Sec.MfaAuthInfo",
        Flag(<<"enabled">>) \o Text(<<"method">>))

UserLoginLoginExtensions ==
    Both("Sec.UserLoginLoginExtensions",
        Objects(<<"mobiles">>) \o Object(<<"mfa">>)
        \o Text(<<"authenticatorSecret">>))

MFAChallengeRequest ==
    Both("Sec.MFAChallengeRequest",
        Text(<<"uuid", "question">>) \o Number(<<"created">>)
        \o Text(<<"method">>))

MFAChallengeResponse ==
    Both("Sec.MFAChallengeResponse",
        Text(<<"uuid", "answer">>))

UserInfo ==
    Both("Sec.UserInfo",
        Text(<<"id", "name", "description", "avatar", "email",
        "validationEmail", "validationURI", "currentLoginURI", "locale">>)
        \o Objects(<<"notes">>) \o Text(<<"location", "owner">>)
        \o Choice(<<"userRole">>) \o Text(<<"securityPolicy">>)
        \o Object(<<"userTypeProprietaryInfo">>) \o Number(<<"validationDate",
        "creationDate", "lastLogin", "lastPasswordChange", "lastEmailCheck",
        "securityPolicyChange">>) \o Flag(<<"validated", "changePassword",
        "waitingForEmailCheck", "suspended", "blackListed">>)
        \o Text(<<"currentPassword">>) \o Values(<<"lastPasswords">>)
        \o Text(<<"oauthType", "oauthUserInfo">>) \o Number(<<"modified">>)
        \o Text(<<"signingUp">>))

UserInfoList == Both("Sec.UserInfoList", Objects(<<"users">>))

InternalServiceInfo ==
    Both("Sec.InternalServiceInfo",
        Text(<<"privateURI", "publicURI", "token">>))

InternalSystemServices ==
    Both("Sec.InternalSystemServices",
        Text(<<"key", "version">>) \o Objects(<<"services">>))

SystemEndpoint ==
    Both("Sec.SystemEndpoint",
        Text(<<"type">>) \o Number(<<"id">>) \o Text(<<"vendor", "uri",
        "authenticationType">>))

SystemEndpointList == Both("Sec.SystemEndpointList", Objects(<<"endpoints">>))

UserInfoAndPolicy ==
    Both("Sec.UserInfoAndPolicy",
        Object(<<"tokenInfo", "userInfo">>))

NoteInfo ==
    Both("Sec.NoteInfo",
        Number(<<"created">>) \o Text(<<"createdBy", "note">>))

ProfileAction ==
    Both("Sec.ProfileAction",
        Text(<<"resource">>) \o Choice(<<"access">>))

SecurityProfile ==
    Both("Sec.SecurityProfile",
        Number(<<"id">>) \o Text(<<"name", "description">>)
        \o Objects(<<"policy">>) \o Text(<<"role">>) \o Objects(<<"notes">>))

SecurityProfileList ==
    Both("Sec.SecurityProfileList",
        Objects(<<"profiles">>))

ActionLink ==
    Both("Sec.ActionLink",
        Text(<<"id">>) \o Number(<<"action">>) \o Text(<<"userId",
        "actionTemplate">>) \o Pairs(<<"variables">>) \o Text(<<"locale",
        "message">>) \o Number(<<"sent", "created", "expires", "completed",
        "canceled">>) \o Flag(<<"userAction">>))

Preferences ==
    Both("Sec.Preferences",
        Text(<<"id">>) \o Number(<<"modified">>) \o Pairs(<<"data">>))

SubMfaConfig ==
    Both("Sec.SubMfaConfig",
        Text(<<"id", "type", "sms", "email">>))

Token ==
    Both("Sec.Token",
        Text(<<"token", "refreshToken", "tokenType", "userName">>)
        \o Number(<<"created", "expires", "idleTimeout", "revocationDate",
        "lastRefresh">>))

LoginRecordInfo ==
    WriteOnly("Sec.LoginRecordInfo",
        Text(<<"sessionId", "userId", "email">>) \o Number(<<"login",
        "logout">>))

ApiKeyAccessRight ==
    Both("Sec.ApiKeyAccessRight",
        Text(<<"service", "access">>))

ApiKeyAccessRightList ==
    Both("Sec.ApiKeyAccessRightList",
        Objects(<<"acls">>))

ApiKeyEntry ==
    Both("Sec.ApiKeyEntry",
        Text(<<"id", "userUuid", "name", "apiKey", "salt", "description">>)
        \o Number(<<"expiresOn">>) \o Object(<<"rights">>)
        \o Number(<<"lastUse">>))

ApiKeyEntryList == Both("Sec.ApiKeyEntryList", Objects(<<"apiKeys">>))

ExtraSystemConfiguration ==
    Both("Sec.ExtraSystemConfiguration",
        Text(<<"parameterName", "parameterValue">>))

SecTypes ==
    {AclTemplate, WebToken, MobilePhoneNumber, MfaAuthInfo,
     UserLoginLoginExtensions, MFAChallengeRequest,
     MFAChallengeResponse, UserInfo, UserInfoList, InternalServiceInfo,
     InternalSystemServices, SystemEndpoint, SystemEndpointList,
     UserInfoAndPolicy, NoteInfo, ProfileAction, SecurityProfile,
     SecurityProfileList, ActionLink, Preferences, SubMfaConfig, Token,
     LoginRecordInfo, ApiKeyAccessRight, ApiKeyAccessRightList,
     ApiKeyEntry, ApiKeyEntryList, ExtraSystemConfiguration}
===============================================================================
