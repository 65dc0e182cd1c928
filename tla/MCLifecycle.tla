----------------------------- MODULE MCLifecycle -----------------------------
(* Environments that differ from a working one in a single variable.          *)
EXTENDS Lifecycle, TLC

CONSTANTS r1, r2, startup, old

Mock == [NoEnvironment EXCEPT !["E2E_UPSTREAM_MODE"] = Word("mock")]

Real == [NoEnvironment EXCEPT !["TURNSTILE_SECRET_KEY"] = Word("secret"),
                              !["FIREBASE_PROJECT_ID"] = Word("project"),
                              !["FIREBASE_APP_ID"] = Word("app"),
                              !["GOOGLE_SERVICE_ACCOUNT_JSON"] = Word("account")]

Raw(v) ==
  IF v \in FreeVariables
  THEN {Word(w) : w \in {"", "junk", "/", "e2e-turnstile-fail"}}
  ELSE {Number(n) : n \in {-1, 0, 1, 99, 100, 200, 299, 300, 600, 1799999, 1800000}}
         \cup {Word(w) : w \in {"", "junk", "nan", "true", "false", "none", "mock", "mysql",
                                "step", "summary"}}

OneOff == UNION {{[e EXCEPT ![v] = x] : e \in {Mock, Real}, x \in Raw(v)} : v \in Variables}

\* Environments that main tells apart.
Few == {Mock, [Mock EXCEPT !["AUDIT_ASYNC_ENABLED"] = Word("false")]}
=============================================================================
