------------------------------ MODULE MCPages ------------------------------
(***************************************************************************)
(* All pages, each with two rows and room for a third.                     *)
(***************************************************************************)
EXTENDS Pages

MCAllPages == PageNames

\* A user for each menu, with a role it is ticked in; one with all menus ticked,
\* and one with menus of two pages.
MCTicked == [u \in AllMenus \cup {"all", "group"} |->
  CASE u = "all"   -> AllMenus
    [] u = "group" -> {"user-group-detail", "user-group-bind-asset"}
    [] OTHER       -> {u}]

\* One button for a user.  The super administrator presses two, except on the
\* pages whose form, buttons and batches another page has too, and on the page of
\* assets, which has every kind of button and keeps overtaken answers; there the user
\* with all menus ticked presses none.  The user who may edit assets only presses two:
\* the answers for two assets meet in one form.  The commands of a user look the same
\* for all.
MCOnce == {"Asset", "Command", "Credential", "Job", "LoginPolicy", "MyCommand", "Role", "Security",
           "User", "UserGroup"}

MCMaxOps(name, u) == CASE u = "super" /\ name \notin MCOnce -> 2
                       [] name = "Asset" /\ u = "asset-edit" -> 2
                       [] u = "all" /\ name \in MCOnce      -> 0
                       [] u # "super" /\ name = "MyCommand" -> 0
                       [] OTHER                             -> 1
=============================================================================
