-------------------------------- MODULE Auth --------------------------------
(***************************************************************************)
(* internal/auth: who a request comes from and what it may do. Tokens are  *)
(* validated by the API server (TokenReview) and the positive answers      *)
(* cached; permissions are asked for every time (SubjectAccessReview).     *)
(* A token stands for its user; the user a trusted proxy asserts is        *)
(* ProxyUser.                                                              *)
(***************************************************************************)
EXTENDS Naturals, FiniteSets, Functions

CONSTANTS
    Tokens, ProxyUser,
    NoToken,            \* no bearer token on the request; nobody
    TTL,                \* TokenCacheTTL
    MaxCachedTokens,    \* 1024
    Configs             \* records [enabled, anonymousRead, proxy]

ASSUME CacheAssumption == TTL \in Nat \ {0} /\ MaxCachedTokens \in Nat \ {0}

ASSUME UsersAssumption ==
    /\ NoToken \notin Tokens \cup {ProxyUser}
    /\ Configs \subseteq [enabled : BOOLEAN, anonymousRead : BOOLEAN, proxy : BOOLEAN]

VARIABLES
    config,
    accepted,   \* tokens the API server accepts
    revokedAt,  \* token -> when it stopped being accepted
    grants,     \* pairs <<user, permission>> held through role bindings
    cache       \* token -> expiresAt

authVars == <<config, accepted, revokedAt, grants, cache>>

AuthInit ==
    /\ config \in Configs
    /\ accepted = Tokens /\ revokedAt = [t \in Tokens |-> 0]
    /\ grants = (Tokens \cup {ProxyUser}) \X {"read", "execute"}
    /\ cache = <<>>

-----------------------------------------------------------------------------
(* The token cache. *)

(* Seeded fault: an entry is still good at the instant it expires. *)
FreshInclusive(t, now) == now <= cache[t]

Fresh(t, now) == now < cache[t]

Hit(t, now) == t \in DOMAIN cache /\ Fresh(t, now)

(* Seeded fault: a known token has been authorised before. *)
PhaseAfterGetTrusting(t, now) == IF Hit(t, now) THEN "allowed" ELSE "review"

PhaseAfterGet(t, now) == IF Hit(t, now) THEN "authorize" ELSE "review"

(* get deletes an entry it finds expired. *)
AfterGet(t, now) == IF t \in DOMAIN cache /\ ~Fresh(t, now) THEN Restrict(cache, DOMAIN cache \ {t}) ELSE cache

(* Seeded fault: put caches although the purge has freed nothing. *)
AfterPutAlways(t, now) ==
    LET kept == Restrict(cache, {k \in DOMAIN cache : Fresh(k, now)})
    IN  [k \in DOMAIN kept \cup {t} |-> IF k = t THEN now + TTL ELSE kept[k]]

(* put purges what has expired when the cache is full, and then gives up
   rather than evict. *)
AfterPut(t, now) ==
    LET full == Cardinality(DOMAIN cache) >= MaxCachedTokens
        kept == IF full THEN Restrict(cache, {k \in DOMAIN cache : Fresh(k, now)}) ELSE cache
    IN  IF Cardinality(DOMAIN kept) >= MaxCachedTokens THEN kept
        ELSE [k \in DOMAIN kept \cup {t} |-> IF k = t THEN now + TTL ELSE kept[k]]

-----------------------------------------------------------------------------
(* Authenticate and Require. *)

(* A bearer token wins over a proxy header; the header counts only when the
   proxy is trusted. *)
FirstPhase(cred) ==
    IF ~config.enabled                    THEN "allowed"
    ELSE IF cred.token # NoToken          THEN "lookup"
    ELSE IF cred.header /\ config.proxy   THEN "authorize"
    ELSE "anonymous"

UserOf(cred) == IF cred.token # NoToken THEN cred.token
                ELSE IF cred.header /\ config.proxy THEN ProxyUser ELSE NoToken

AnonymousMay(permission) == config.anonymousRead /\ permission = "read"

(* TokenReview and SubjectAccessReview (external). *)
Reviewed(t) == t \in accepted
Allowed(user, permission) == <<user, permission>> \in grants

(* An administrator revokes a token or a role binding. *)
RevokeToken(t, now) ==
    /\ t \in accepted
    /\ accepted' = accepted \ {t}
    /\ revokedAt' = [revokedAt EXCEPT ![t] = now]
    /\ UNCHANGED <<config, grants, cache>>

RevokeGrant(user, permission) ==
    /\ Allowed(user, permission)
    /\ grants' = grants \ {<<user, permission>>}
    /\ UNCHANGED <<config, accepted, revokedAt, cache>>
=============================================================================
