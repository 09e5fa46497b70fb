----------------------------- MODULE MCShopBrowser -----------------------------
(* Small instances of ShopBrowser.                                          *)
EXTENDS ShopBrowser, TLC

CONSTANTS ann, ben, guest
================================================================================
