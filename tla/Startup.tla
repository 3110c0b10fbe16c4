------------------------------ MODULE Startup ------------------------------
(* How a replica starts (cmd/server/main.go, signing_key.go): it needs a provisioning token,
   then the signing key from the vault, for which it waits as long as the vault is sealed,
   then a signer and a hasher; it listens last.                                          *)
EXTENDS Naturals

CONSTANTS
  RetryFirst, RetryMax   \* sealedRetryFirst, sealedRetryMax

VARIABLES
  vault,    \* "sealed", "open" or "broken" (unreachable, any other answer)
  config,   \* whether token, key and hashing budget are usable
  step,     \* where main is
  delay     \* the next wait

startVars == <<vault, config, step, delay>>

\* The provisioning token is there, or main exits.
ReadToken ==
  /\ step = "token"
  /\ step' = IF config THEN "fetch" ELSE "exited"
  /\ UNCHANGED <<vault, config, delay>>

\* Variant: a sealed vault is a failure like any other.
AfterSealed == "exited"

\* errVaultSealed: wait and try again.
Sealed == "sleep"

\* fetchSigningKey: the key, the vault is sealed, or main exits.
FetchKey ==
  /\ step = "fetch"
  /\ step' = CASE vault = "open" -> "signer" [] vault = "sealed" -> Sealed [] OTHER -> "exited"
  /\ UNCHANGED <<vault, config, delay>>

\* waitForSigningKey: the wait is over, the next one is longer.
Sleep ==
  /\ step = "sleep"
  /\ step' = "fetch"
  /\ delay' = IF 2 * delay < RetryMax THEN 2 * delay ELSE RetryMax
  /\ UNCHANGED <<vault, config>>

\* newSigner, the pool manager, configureHashing, the handlers.
Configure ==
  /\ step = "signer"
  /\ step' = IF config THEN "listens" ELSE "exited"
  /\ UNCHANGED <<vault, config, delay>>

\* Operators seal and unseal the vault, or provisioning fails.
Turn(v) ==
  /\ v # vault
  /\ vault' = v
  /\ UNCHANGED <<config, step, delay>>

StartupInit ==
  /\ vault \in {"sealed", "open", "broken"} /\ config \in BOOLEAN
  /\ step = "token" /\ delay = RetryFirst

StartupNext ==
  \/ ReadToken \/ FetchKey \/ Sleep \/ Configure
  \/ \E v \in {"sealed", "open", "broken"} : Turn(v)

Main == ReadToken \/ FetchKey \/ Sleep \/ Configure

-----------------------------------------------------------------------------
(* Properties.                                                             *)

\* "waiting as long as the vault is sealed ... any other failure still stops the start": a
\* replica with a usable configuration listens once the vault is unsealed for good, if the
\* vault is never broken meanwhile, and never waits longer than the maximum.
StartsOnceUnsealed ==
  /\ [](delay <= RetryMax)
  /\ config /\ [](vault # "broken") /\ <>[](vault = "open") => <>(step = "listens")

=============================================================================
