---------------------------- MODULE MCAssetScan ----------------------------
(***************************************************************************)
(* A site of six URLs: a page script met under two kinds, a manifest,     *)
(* three low-signal scripts, one also met as a payload, and a payload.     *)
(***************************************************************************)
EXTENDS AssetScan

CONSTANTS app, man, ven, run, ana, pay

MCUrl == {app, man, ven, run, ana, pay}

MCPathWords == [u \in MCUrl |->
  CASE u = app -> {"app"} [] u \in {ven, run, ana} -> {"lowSignal"} [] OTHER -> {}]

R(u, k, s) == [url |-> u, kind |-> k, source |-> s]

App  == R(app, "Script", "HtmlScript")
App2 == R(app, "Script", "DynamicImport")
Man  == R(man, "Manifest", "NextManifest")
Ven  == R(ven, "Script", "Literal")
Ven2 == R(ven, "Payload", "Literal")
Run  == R(run, "Script", "NewUrl")
Ana  == R(ana, "Script", "HtmlPreload")
Pay  == R(pay, "Payload", "Literal")

MCRef == {App, App2, Man, Ven, Ven2, Run, Ana, Pay}

Roots == {<<>>, <<Run, Man, App>>, <<Pay, App2, App, Ven>>}

\* Cyclic, repeated and self references; each asset has links or none.
Linked == [r \in MCRef |->
  CASE r = Man -> <<Ven, App, Ana, App>>
    [] r \in {App, App2} -> <<Run, Ven, Man, Ven2>>
    [] r = Pay -> <<Pay, Ven2, Run>>
    [] OTHER -> <<App2>>]

Links == {[r \in MCRef |-> IF r.url \in S THEN Linked[r] ELSE <<>>] : S \in SUBSET {app, man, pay}}

AllOk == [r \in MCRef |-> "ok"]
Cold == [r \in MCRef |-> "miss"]

Answers == {AllOk,
            [AllOk EXCEPT ![Man] = "missing"],
            [AllOk EXCEPT ![Pay] = "auth", ![Ven] = "unreadable", ![App] = "notModified"],
            [r \in MCRef |-> "notModified"]}

Caches == {Cold, [Cold EXCEPT ![App] = "revalidate", ![Man] = "usable", ![Pay] = "revalidate"]}

MCSites == [root : Roots, links : Links, answer : Answers, cache : Caches]
=============================================================================
