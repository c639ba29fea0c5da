-------------------------------- MODULE Config --------------------------------
(****************************************************************************)
(* What the operator makes of its flags: validateFlags and GetLicenseKey      *)
(* before it starts, getProvisioner and getHostConfig during a sync.  Of a    *)
(* string flag only its being empty matters, of a license its punctuation.    *)
(****************************************************************************)
EXTENDS Naturals

(* flags.given is the set of the flags that are not empty strings. *)
FlagNames == {"region", "zone", "access-key", "access-key-file", "secret-key",
              "secret-key-file", "organization-id", "subscription-id", "vpc-id",
              "subnet-id", "project-id", "plan"}

(* The providers named in the help of -provider. *)
Documented == {"equinix-metal", "digitalocean", "scaleway", "gce", "linode",
               "azure", "ec2", "hetzner"}

Supported == Documented \ {"equinix-metal"}

(* A license text, or a file's content, by its dots and dashes. *)
Text == [kind: {"empty", "unreadable", "text"}, dots: Nat, dashes: Nat]

Flags == [provider: Documented \cup {"", "other"}, given: SUBSET FlagNames,
          memory: {"empty", "valid", "invalid"}, license: Text, licenseFile: Text]

------------------------------------------------------------------------------

Required(provider) ==
    CASE provider = "equinix-metal" -> {"project-id"}
      [] provider = "gce"           -> {"project-id", "zone", "region"}
      [] provider = "azure"         -> {"subscription-id"}
      [] provider = "hetzner"       -> {"region"}
      [] OTHER                      -> {}

(* Mutants of validateFlags: the provider's own flags are not looked at; nor is
   the memory limit. *)
validateFlagsAnyCloud(flags) ==
    /\ flags.provider # "" /\ flags.memory # "invalid"
    /\ flags.given \cap {"access-key", "access-key-file"} # {}

validateFlagsAnyMemory(flags) ==
    /\ flags.provider # "" /\ Required(flags.provider) \subseteq flags.given
    /\ flags.given \cap {"access-key", "access-key-file"} # {}

(* No error: unknown providers and an empty memory limit are accepted. *)
validateFlags(flags) ==
    /\ flags.provider # "" /\ Required(flags.provider) \subseteq flags.given
    /\ flags.memory # "invalid"
    /\ flags.given \cap {"access-key", "access-key-file"} # {}

(* No error: -license comes before -license-file, and the text looks like a JWT
   or has exactly three dashes. *)
GetLicenseKey(flags) ==
    LET val == IF flags.license.kind = "text" THEN flags.license ELSE flags.licenseFile
    IN  val.kind = "text" /\ (val.dots >= 2 \/ val.dashes = 3)

------------------------------------------------------------------------------

(* The files whose content GetAccessKey and GetSecretKey read, each time; a file
   comes before the flag that holds the key itself. *)
KeyFiles(flags) ==
    flags.given \cap ({"access-key-file"} \cup
        IF flags.provider \in {"scaleway", "ec2"} THEN {"secret-key-file"} ELSE {})

(* What getProvisioner hands to the cloud library's constructor, beside the
   access key and what is empty. *)
ConstructorArguments(flags) ==
    LET Given(names) == flags.given \cap names
        secretKey == IF Given({"secret-key", "secret-key-file"}) = {} THEN {}
                     ELSE {"secret-key"}
    IN  CASE flags.provider = "scaleway" ->
               Given({"region", "organization-id"}) \cup secretKey
          [] flags.provider = "ec2"      -> Given({"region"}) \cup secretKey
          [] flags.provider = "azure"    -> Given({"subscription-id"})
          [] OTHER                       -> {}

(* What the constructor itself refuses to be without: scw.NewClient's check of
   its settings. *)
ConstructorNeeds(provider) ==
    IF provider = "scaleway" THEN {"secret-key", "organization-id"} ELSE {}

(* The default branch is an error, a key file that cannot be read ends the
   process, and the constructor may return an error. *)
getProvisioner(flags, unreadable) ==
    CASE flags.provider \notin Supported      -> "error"
      [] KeyFiles(flags) \cap unreadable # {} -> "fatal"
      [] ~(ConstructorNeeds(flags.provider) \subseteq ConstructorArguments(flags)) -> "error"
      [] OTHER                                 -> "ready"

(* The names in BasicHost and its Additional that get a value which is not
   empty; -plan replaces the table's plan, if there is one. *)
getHostConfig(flags) ==
    LET Given(names) == flags.given \cap names
        common == {"name", "os", "plan", "user-data"}
    IN  CASE flags.provider = "gce" ->
               common \cup Given({"region", "project-id", "zone"})
                      \cup {"firewall-name", "firewall-port"}
          [] flags.provider = "ec2" ->
               common \cup Given({"vpc-id", "subnet-id"}) \cup {"inlets-port", "ports"}
          [] flags.provider = "azure" ->
               common \cup Given({"region"})
                      \cup {"inlets-port", "pro", "imagePublisher", "imageOffer",
                            "imageSku", "imageVersion"}
          [] flags.provider \in {"digitalocean", "scaleway", "linode", "hetzner"} ->
               common \cup Given({"region"})
          [] OTHER -> Given({"plan"})

(* All that an order of a host is made from. *)
Sent(flags) == getHostConfig(flags) \cup ConstructorArguments(flags)

------------------------------------------------------------------------------
(* What the vendored cloud library puts into an order's requests without a      *)
(* default of its own, and without leaving it out when it is empty.             *)

DigitalOceanNeeds == {"name", "os", "plan", "user-data"}

(* Provision chooses an image and a plan itself, the constructor a zone. *)
ScalewayNeeds == ConstructorNeeds("scaleway") \cup {"name", "user-data"}

GCENeeds == {"name", "os", "plan", "user-data", "region", "project-id", "zone",
             "firewall-name", "firewall-port"}

(* Region and credentials are the session's; a security group needs no more
   ports than the control port. *)
EC2Needs == {"os", "plan", "user-data", "region", "secret-key"}

LinodeNeeds == {"name", "os", "plan", "user-data", "region"}

(* Additional says what the image is, not OS. *)
AzureImage == {"imagePublisher", "imageOffer", "imageSku", "imageVersion"}

AzureNeeds == {"name", "plan", "user-data", "region", "subscription-id"} \cup AzureImage

(* A location that is not found is left out of the request. *)
HetznerNeeds == {"name", "os", "plan", "user-data"}

Needs(provider) ==
    CASE provider = "digitalocean" -> DigitalOceanNeeds
      [] provider = "scaleway"     -> ScalewayNeeds
      [] provider = "gce"          -> GCENeeds
      [] provider = "ec2"          -> EC2Needs
      [] provider = "linode"       -> LinodeNeeds
      [] provider = "azure"        -> AzureNeeds
      [] provider = "hetzner"      -> HetznerNeeds
      [] OTHER                     -> {}

(* resource.MustParse panics on what ParseQuantity rejects, and on nothing. *)
MustParsePanics(flags) == flags.memory # "valid"
==============================================================================
