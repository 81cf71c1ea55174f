-------------------------- MODULE MCSiteDocuments --------------------------
(* Small instances of SiteDocuments: a page that can be embargoed and one *)
(* that cannot.                                                           *)
EXTENDS SiteDocuments

CONSTANTS secret, public

Pages == {secret, public}
EmbargoOrNone == {{}, {secret}}

=============================================================================
