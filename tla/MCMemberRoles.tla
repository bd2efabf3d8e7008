--------------------------- MODULE MCMemberRoles ---------------------------
(* One member, two roles, one moderator who jails, one who grants roles.     *)
EXTENDS MemberRoles, TLC

AnyRole == Permutations(Role)
=============================================================================
