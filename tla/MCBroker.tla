------------------------------ MODULE MCBroker ------------------------------
(* One secret of one tenant, and one request for each decision that the gate  *)
(* and the lifetime rule make.                                                *)
EXTENDS CredentialBroker

Token == [namespace |-> "acme", path |-> "token"]

MCRefs == {Token}

Request(mission, tenant, requested, max, production) ==
    [mission_id |-> mission, capability_id |-> "deploy", tenant_id |-> tenant,
     authority_context_id |-> "a1", secret_ref |-> Token,
     required_scopes |-> {"repo:deploy"}, requested_ttl |-> requested,
     max_ttl |-> max, production_broker_required |-> production]

MCRequests ==
    { Request("m1", "acme", 1, None, FALSE),        \* no limit
      Request("m2", "acme", 0, 0, FALSE),           \* a limit of nothing
      Request("m2", "acme", None, 1, FALSE),        \* the limit is the lifetime
      Request("m1", "acme", 2, 1, FALSE),           \* beyond the limit
      Request("m1", "other", None, None, FALSE),    \* another tenant's secret
      Request("m1", "acme", None, None, TRUE) }     \* not for this broker

Authority(tenant, expires) ==
    [authority_id |-> "a1", chain_ref |-> "a1@digest", tenant |-> tenant,
     scope |-> {"repo:deploy"}, expires |-> expires]

MCAuthorities == {Authority("acme", None), Authority("acme", 1), Authority("other", None)}
=============================================================================
