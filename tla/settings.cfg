\* Every file that states some of the deployment or some of the offers.
CONSTANTS
    urlA = urlA
    urlB = urlB
    Urls <- TwoUrls
    RpcArgument = urlA
    Modulus <- Wrap
    Files <- SomeFiles
    Unset = Unset
SPECIFICATION Spec
INVARIANTS OffersAsStated NodeAndStreamAsStated OffersInOrder
