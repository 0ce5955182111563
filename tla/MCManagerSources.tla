----------------------------- MODULE MCManagerSources -----------------------------
(* Instances of ManagerSources: the shipped sources, and two other repositories.     *)
EXTENDS ManagerSources

ShippedIds == {"hahapent", "hahapent-test"}
AllIds == ShippedIds \union {"suite"}
AllRepos == {"djeZo888/HAHAPent", "example/suite", "example/another"}
OneRepo == {"djeZo888/HAHAPent", "example/suite"}
=============================================================================
