------------------------------ MODULE MCSession ------------------------------
EXTENDS Session, TLC

CONSTANTS ann, bob

MCBoth == {ann, bob}
MCFirst == ann
MCNothing == {}
MCRenewal == {"renewal"}
MCOthers == TaskKinds \ {"renew"}
MCRenew == {"renew"}
=============================================================================
