--------------------------- MODULE MCModelSettings ---------------------------
(* An instance of ModelSettings for TLC: one provider with two models, room  *)
(* for two presets of one name, one worker (the caches do not meet).         *)
EXTENDS ModelSettings

CONSTANTS p1, a1, a2, i1, i2, n1, w1, r1, r2

OneProvider == [a \in Assets |-> p1]
MCPlans == {<<a1, NoAsset>>, <<a2, NoAsset>>, <<NoAsset, a1>>}
AllOperations == {"set_key", "set_url", "remove_key", "register", "delete_asset",
                  "upsert_preset", "create_preset", "delete_preset", "session"}
=============================================================================
