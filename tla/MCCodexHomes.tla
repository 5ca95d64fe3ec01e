------------------------------ MODULE MCCodexHomes -----------------------------
(* Two isolated homes and a Primary whose config.toml changes, for TLC. *)
EXTENDS CodexHomes, TLC

CONSTANTS known, custom

Model(provider, official) == [provider |-> provider, official |-> official]

Commented(section) == [Header(section) EXCEPT !.plain = FALSE]
Unspaced(key, value) == [Setting(key, value) EXCEPT !.plain = FALSE]

\* A provider of one's own, next to trusted projects and an MCP server.
Provider == <<Setting("model_provider", custom), Header("projects.p"),
              Setting("trust_level", "trusted"), Header("mcp_servers.m"),
              Setting("command", "m"), Commented("projects.c"), Setting("trust_level", "trusted")>>
\* A proxy, and credentials in the keyring.
Proxy == <<Setting("cli_auth_credentials_store", "keyring"), Setting("model_provider", known),
           Unspaced("mcp_oauth_credentials_store", "keyring"), Setting("openai_base_url", custom),
           Header("mcp_servers.m"), Setting("model_provider", custom)>>
\* A known model; a provider only inside a profile.
Profiled == <<Setting("model", Model(NoValue, TRUE)), Commented("profiles.x"),
              Setting("model_provider", custom)>>

SomeConfigs == {Provider, Proxy, Profiled, <<Setting("model", Model(custom, FALSE))>>}
SomeRequests == [provider : {NoValue, known, custom},
                 model : {NoValue, Model(NoValue, TRUE), Model(NoValue, FALSE), Model(custom, FALSE)}]
================================================================================
